---- MODULE Spec2Model ----
(***************************************************************************)
(* A model of Inkscape's SnapManager (src/src/snap.cpp): the session set   *)
(* up by setup(), the free and constrained snap primitives, the candidate  *)
(* selection of findBestSnap() and the batch snapping of transformed       *)
(* points in _snapTransformed().                                           *)
(*                                                                         *)
(* Numbers.  A Geom::Coord is modelled as an exact value <<n, d>>:         *)
(*    d > 0   the rational n/d in lowest terms,                            *)
(*    d = 0   what IEEE division by zero gives: <<1,0>> is +inf, <<-1,0>>  *)
(*            is -inf and <<0,0>> is NaN,                                  *)
(*    d = -1  a value of the magnitude of NR_HUGE (1e18), which absorbs    *)
(*            every finite value of the model when added to it, as it does *)
(*            in double arithmetic: <<1,-1>> is NR_HUGE.                   *)
(* A distance (snap distance, second distance, tolerance, pointer          *)
(* distance) is kept as the SQUARE of its value, so that Euclidean         *)
(* distances stay exact; the code only compares distances, and squaring    *)
(* preserves the order of non-negative values. NR_HUGE stands for itself.  *)
(***************************************************************************)
EXTENDS Integers, Sequences, FiniteSets, TLC

----------------------------------------------------------------------------
(* Exact arithmetic on Geom::Coord values                                  *)

RECURSIVE GCD(_, _)
GCD(a, b) ==
    IF b = 0 THEN a ELSE GCD(b, a % b)

AbsInt(n) ==
    IF n < 0 THEN -n ELSE n

SgnInt(n) ==
    IF n < 0 THEN -1 ELSE IF n > 0 THEN 1 ELSE 0

\* the rational n/d, d # 0, in lowest terms with a positive denominator
Q(n, d) ==
    LET g == GCD(AbsInt(n), AbsInt(d))
        s == IF d < 0 THEN -1 ELSE 1
    IN  <<(s * n) \div g, (s * d) \div g>>

R(n) ==
    <<n, 1>>

NR_HUGE ==
    <<1, -1>>

NaN ==
    <<0, 0>>

IsFin(a) ==
    a[2] > 0

IsNaN(a) ==
    a = NaN

\* position in the order  -inf < -NR_HUGE < finite < NR_HUGE < +inf
Rank(a) ==
    IF a[2] > 0 THEN 0 ELSE IF a[2] = -1 THEN a[1] ELSE 2 * a[1]

Neg(a) ==
    <<-a[1], a[2]>>

Add(a, b) ==
    IF IsNaN(a) \/ IsNaN(b) THEN NaN
    ELSE IF IsFin(a) /\ IsFin(b) THEN Q(a[1] * b[2] + b[1] * a[2], a[2] * b[2])
    ELSE IF AbsInt(Rank(a)) > AbsInt(Rank(b)) THEN a
    ELSE IF AbsInt(Rank(b)) > AbsInt(Rank(a)) THEN b
    ELSE IF a = b THEN a
    ELSE IF a[2] = 0 THEN NaN ELSE R(0)

Sub(a, b) ==
    Add(a, Neg(b))

Mul(a, b) ==
    IF IsNaN(a) \/ IsNaN(b) THEN NaN
    ELSE IF IsFin(a) /\ IsFin(b) THEN Q(a[1] * b[1], a[2] * b[2])
    ELSE IF a = R(0) \/ b = R(0) THEN (IF a[2] = 0 \/ b[2] = 0 THEN NaN ELSE R(0))
    ELSE IF a[2] = 0 \/ b[2] = 0 THEN <<SgnInt(a[1]) * SgnInt(b[1]), 0>>
    ELSE <<SgnInt(a[1]) * SgnInt(b[1]), -1>>

Div(a, b) ==
    IF IsNaN(a) \/ IsNaN(b) THEN NaN
    ELSE IF IsFin(a) /\ IsFin(b)
         THEN IF b[1] # 0 THEN Q(a[1] * b[2], a[2] * b[1])
              ELSE <<SgnInt(a[1]), 0>>
    ELSE IF IsFin(b)
         THEN IF b[1] = 0 THEN <<SgnInt(a[1]), 0>>
              ELSE <<SgnInt(a[1]) * SgnInt(b[1]), a[2]>>
    ELSE IF IsFin(a) THEN R(0)
    ELSE IF a[2] = b[2] THEN (IF a[2] = 0 THEN NaN ELSE R(SgnInt(a[1]) * SgnInt(b[1])))
    ELSE IF a[2] = 0 THEN <<SgnInt(a[1]) * SgnInt(b[1]), 0>> ELSE R(0)

\* fabs / std::abs
Fabs(a) ==
    <<AbsInt(a[1]), a[2]>>

Lt(a, b) ==
    /\ ~IsNaN(a)
    /\ ~IsNaN(b)
    /\ \/ Rank(a) < Rank(b)
       \/ /\ IsFin(a)
          /\ IsFin(b)
          /\ LET g == GCD(a[2], b[2])
             IN  a[1] * (b[2] \div g) < b[1] * (a[2] \div g)

Le(a, b) ==
    /\ ~IsNaN(a)
    /\ ~IsNaN(b)
    /\ ~Lt(b, a)

Eq(a, b) ==
    ~IsNaN(a) /\ a = b

\* std::min(a, b): b < a ? b : a
Min(a, b) ==
    IF Lt(b, a) THEN b ELSE a

\* the square of a distance (see the header): NR_HUGE and +inf stand for themselves
Sq(a) ==
    IF IsFin(a) THEN Mul(a, a) ELSE Fabs(a)

\* floor of a finite value
Floor(a) ==
    a[1] \div a[2]

----------------------------------------------------------------------------
(* Geom::Point, as <<x, y>>                                                *)

X ==
    1

Y ==
    2

Pt(x, y) ==
    <<R(x), R(y)>>

PAdd(p, q) ==
    <<Add(p[1], q[1]), Add(p[2], q[2])>>

PSub(p, q) ==
    <<Sub(p[1], q[1]), Sub(p[2], q[2])>>

PScale(p, k) ==
    <<Mul(p[1], k), Mul(p[2], k)>>

Dot(p, q) ==
    Add(Mul(p[1], q[1]), Mul(p[2], q[2]))

\* the square of Geom::L2(p)
L2sq(p) ==
    Add(Sq(p[1]), Sq(p[2]))

\* 1 - dim of the code (Geom::X is 0 and Geom::Y is 1 there)
Other(dim) ==
    3 - dim

\* component_vectors[dim]
component_vectors(dim) ==
    IF dim = X THEN Pt(1, 0) ELSE Pt(0, 1)

----------------------------------------------------------------------------
(* Inkscape::SnappedPoint and the candidates of a query                    *)

\* SnappedPoint(p, source, target, d, t, a, at_intersection)
SnappedPoint(p, source, target, d, t, a, i) ==
    [point |-> p, source |-> source, target |-> target, distance |-> d,
     tolerance |-> t, always_snap |-> a, at_intersection |-> i,
     second_distance |-> NR_HUGE, pointer_distance |-> NR_HUGE,
     transformation |-> Pt(1, 1)]

\* SnappedPoint(): nothing found
DefaultSnappedPoint ==
    SnappedPoint(Pt(0, 0), "SNAPSOURCE_UNDEFINED", "SNAPTARGET_UNDEFINED",
                 NR_HUGE, R(0), FALSE, FALSE)

getSnappedMutant(s) ==
    Lt(s.distance, s.tolerance)

\* SnappedPoint::getSnapped(): the distance is not the sentinel
getSnapped(s) ==
    Lt(s.distance, NR_HUGE)

\* a SnappedLine or SnappedCurve: the projection of the query point on the line
\* {q : q[dim] = pos}, with its distance to it
SnappedLine(p, source, target, d, t, a, dim, pos) ==
    [point |-> p, source |-> source, target |-> target, distance |-> d,
     tolerance |-> t, always_snap |-> a, dim |-> dim, pos |-> pos]

\* SnappedPoint(SnappedLine const &) and SnappedPoint(SnappedCurve const &)
SnappedPointOfLine(l) ==
    SnappedPoint(l.point, l.source, l.target, l.distance, l.tolerance,
                 l.always_snap, FALSE)

\* SnappedConstraints: the candidates gathered by one query
EmptySC ==
    [points |-> <<>>, curves |-> <<>>, grid_lines |-> <<>>, guide_lines |-> <<>>]

\* SnappedLine::intersect / SnappedCurve::intersect: the crossing of two
\* candidate lines; the nearer line is primary and gives the distance (the
\* distance to the nearest line, not to the crossing itself), the other line
\* gives the second distance
intersect(l, m, target) ==
    IF l.dim = m.dim
    THEN [DefaultSnappedPoint EXCEPT !.point = <<NR_HUGE, NR_HUGE>>]
    ELSE LET use_this == Lt(l.distance, m.distance)
             pri == IF use_this THEN l ELSE m
             sec == IF use_this THEN m ELSE l
             ip  == IF l.dim = X THEN <<l.pos, m.pos>> ELSE <<m.pos, l.pos>>
         IN  [SnappedPoint(ip, "SNAPSOURCE_UNDEFINED", target, pri.distance,
                           pri.tolerance, pri.always_snap, TRUE)
                EXCEPT !.second_distance = sec.distance]

\* getClosestSP / getClosestSL / getClosestCurve: the first of the nearest
\* candidates of a list (<<>> when the list is empty)
RECURSIVE getClosest(_, _, _)
getClosest(list, k, best) ==
    IF k > Len(list) THEN best
    ELSE getClosest(list, k + 1,
                    IF best = <<>> \/ Lt(list[k].distance, best[1].distance)
                    THEN <<list[k]>> ELSE best)

\* the intersection searches: every pair (i before j when both come from one
\* list), the nearest crossing kept, the second distance deciding a tie
RECURSIVE closestIntersection(_, _, _, _, _, _)
closestIntersection(as, bs, within, target, k, best) ==
    IF k > Len(as) * Len(bs) THEN best
    ELSE LET i  == ((k - 1) \div Len(bs)) + 1
             j  == ((k - 1) % Len(bs)) + 1
             sp == intersect(as[i], bs[j], target)
             take == /\ (within => i < j)
                     /\ sp.at_intersection
                     /\ \/ best = <<>>
                        \/ Lt(sp.distance, best[1].distance)
                        \/ /\ Eq(sp.distance, best[1].distance)
                           /\ Lt(sp.second_distance, best[1].second_distance)
         IN  closestIntersection(as, bs, within, target, k + 1,
                                 IF take THEN <<sp>> ELSE best)

\* getClosestIntersectionSL(list, result) and getClosestIntersectionCS
getClosestIntersectionSL(list, target) ==
    closestIntersection(list, list, TRUE, target, 1, <<>>)

\* getClosestIntersectionSL(list1, list2, result)
getClosestIntersectionSL2(list1, list2, target) ==
    closestIntersection(list1, list2, FALSE, target, 1, <<>>)

isOtherSnapBetterMutant(this, other, weighted) ==
    Lt(other.distance, this.distance)

\* SnappedPoint::isOtherSnapBetter(other, weighted): the first criterion that
\* differs decides
isOtherSnapBetter(this, other, weighted) ==
    IF other.always_snap # this.always_snap THEN other.always_snap
    ELSE IF other.at_intersection # this.at_intersection THEN other.at_intersection
    ELSE IF Lt(other.distance, this.distance) THEN TRUE
    ELSE IF Lt(this.distance, other.distance) THEN FALSE
    ELSE IF Lt(other.second_distance, this.second_distance) THEN TRUE
    ELSE IF Lt(this.second_distance, other.second_distance) THEN FALSE
    ELSE weighted /\ Lt(other.pointer_distance, this.pointer_distance)

----------------------------------------------------------------------------
(* The state of a SnapManager                                              *)

VARIABLES
    snapprefs,          \* Inkscape::SnapPreferences, read by every query
    _desktop,           \* SPDesktop const *
    _item_to_ignore,    \* SPItem const *
    _items_to_ignore,   \* std::vector<SPItem const *> *
    _snapindicator,     \* bool
    _unselected_nodes,  \* std::vector<std::pair<Geom::Point, int> > *
    _guide_to_ignore,   \* SPGuide *
    last                \* the query in progress: its arguments, what it returned,
                        \* the provider and indicator calls it made

\* A pointer is <<>> when it is NULL and <<v>> when it points to v.
NULL ==
    <<>>

vars ==
    <<snapprefs, _desktop, _item_to_ignore, _items_to_ignore, _snapindicator,
      _unselected_nodes, _guide_to_ignore, last>>

session ==
    <<_desktop, _item_to_ignore, _items_to_ignore, _snapindicator,
      _unselected_nodes, _guide_to_ignore>>

----------------------------------------------------------------------------
(* The named view: the targets the snappers of the model look for          *)

\* a rectangular grid at the origin of the document
PlainGrid ==
    [origin |-> Pt(0, 0), pitch |-> Pt(10, 10)]

\* a document with two guides (the lines {q : q[dim] = pos}) and two items, each
\* with a node and a straight path, and a document with nothing in it
Drawing ==
    [guides |-> << [id |-> "g1", dim |-> Y, pos |-> R(50)],
                   [id |-> "g2", dim |-> X, pos |-> R(20)] >>,
     nodes  |-> << [item |-> "item1", point |-> Pt(41, 51)],
                   [item |-> "item2", point |-> Pt(44, 50)] >>,
     paths  |-> << [item |-> "item1", dim |-> X, pos |-> R(42)],
                   [item |-> "item2", dim |-> Y, pos |-> R(48)] >>,
     grids  |-> << PlainGrid >>]

Blank ==
    [guides |-> <<>>, nodes |-> <<>>, paths |-> <<>>, grids |-> << PlainGrid >>]

\* a document with nothing in it but two grids, neither at the origin of the
\* document
Shifted ==
    [guides |-> <<>>, nodes |-> <<>>, paths |-> <<>>,
     grids  |-> << [origin |-> Pt(3, 4), pitch |-> Pt(10, 10)],
                   [origin |-> Pt(1, 1), pitch |-> Pt(7, 7)] >>]

\* what the named view of the desktop holds
Guides ==
    IF _desktop = NULL THEN <<>> ELSE _desktop[1].namedview.guides

Nodes ==
    IF _desktop = NULL THEN <<>> ELSE _desktop[1].namedview.nodes

Paths ==
    IF _desktop = NULL THEN <<>> ELSE _desktop[1].namedview.paths

\* the grids of _named_view->grids, each with its own snapper
Grids ==
    IF _desktop = NULL THEN <<>> ELSE _desktop[1].namedview.grids

\* ConstraintLine(direction) and ConstraintLine(point, direction)
ConstraintLine(point, direction, has_point) ==
    [point |-> point, direction |-> direction, has_point |-> has_point]

\* ConstraintLine::projection(p): the foot of p on the line
projection(c, p) ==
    LET p1 == IF c.has_point THEN c.point ELSE p
        t  == Div(Dot(PSub(p, p1), c.direction), Dot(c.direction, c.direction))
    IN  PAdd(p1, PScale(c.direction, t))

\* whether q lies on the constraint line through p1
OnLine(c, p1, q) ==
    LET d == PSub(q, p1)
    IN  Eq(Mul(d[1], c.direction[2]), Mul(d[2], c.direction[1]))

\* the crossing of the constraint line through p1 with the line {q : q[dim] = pos}
\* (<<>> when they are parallel)
CrossLine(c, p1, dim, pos) ==
    IF ~IsFin(c.direction[dim]) \/ c.direction[dim] = R(0) THEN <<>>
    ELSE LET t == Div(Sub(pos, p1[dim]), c.direction[dim])
         IN  <<PAdd(p1, PScale(c.direction, t))>>

\* the grid lines next to p in dimension dim: the multiples of the pitch below
\* and above it
GridLinesNear(g, p, dim) ==
    IF ~IsFin(p[dim]) THEN <<>>
    ELSE LET u  == Div(Sub(p[dim], g.origin[dim]), g.pitch[dim])
             lo == Floor(u)
             hi == IF R(lo) = u THEN lo ELSE lo + 1
             at(k) == Add(g.origin[dim], Mul(R(k), g.pitch[dim]))
         IN  IF lo = hi THEN <<at(lo)>> ELSE <<at(lo), at(hi)>>

\* every line a line snapper looks at near p: <<dim, pos, id>>
GridLines(g, p) ==
    LET xs == GridLinesNear(g, p, X)
        ys == GridLinesNear(g, p, Y)
    IN  [k \in 1..Len(xs) |-> [dim |-> X, pos |-> xs[k], id |-> "grid"]]
        \o [k \in 1..Len(ys) |-> [dim |-> Y, pos |-> ys[k], id |-> "grid"]]

\* the candidates of a list that lie within their tolerance
RECURSIVE WithinTolerance(_, _)
WithinTolerance(list, k) ==
    IF k > Len(list) THEN <<>>
    ELSE (IF Le(list[k].distance, list[k].tolerance) THEN <<list[k]>> ELSE <<>>)
         \o WithinTolerance(list, k + 1)

\* LineSnapper::freeSnap: every line within the tolerance becomes a SnappedLine
\* carrying the projection of p on it
LineFreeSnap(lines, p, source, target, tol, always) ==
    WithinTolerance(
        [k \in 1..Len(lines) |->
            SnappedLine([p EXCEPT ![lines[k].dim] = lines[k].pos], source, target,
                        Sq(Sub(p[lines[k].dim], lines[k].pos)), Sq(tol), always,
                        lines[k].dim, lines[k].pos)], 1)

\* the crossings of the constraint line with the lines, each as a candidate at
\* its distance from p
RECURSIVE Crossings(_, _, _, _, _, _, _, _)
Crossings(lines, p, source, target, tol, always, c, k) ==
    IF k > Len(lines) THEN <<>>
    ELSE LET p1 == IF c.has_point THEN c.point ELSE p
             x  == CrossLine(c, p1, lines[k].dim, lines[k].pos)
         IN  (IF x = <<>> THEN <<>>
              ELSE <<SnappedLine(x[1], source, target, L2sq(PSub(x[1], p)),
                                 Sq(tol), always, lines[k].dim, lines[k].pos)>>)
             \o Crossings(lines, p, source, target, tol, always, c, k + 1)

\* LineSnapper::constrainedSnap: the crossings within the tolerance become
\* SnappedPoints
LineConstrainedSnap(lines, p, source, target, tol, always, c) ==
    LET xs == WithinTolerance(Crossings(lines, p, source, target, tol, always, c, 1), 1)
    IN  [k \in 1..Len(xs) |-> SnappedPointOfLine(xs[k])]

\* the targets of the items that are not ignored
RECURSIVE NotIgnored(_, _, _)
NotIgnored(targets, ignore, k) ==
    IF k > Len(targets) THEN <<>>
    ELSE (IF \E i \in 1..Len(ignore) : ignore[i] = targets[k].item
          THEN <<>> ELSE <<targets[k]>>)
         \o NotIgnored(targets, ignore, k + 1)

\* ObjectSnapper::freeSnap: the nodes within the tolerance become SnappedPoints
ObjectNodes(p, source, tol, always, ignore) ==
    LET ns == NotIgnored(Nodes, ignore, 1)
    IN  WithinTolerance(
            [k \in 1..Len(ns) |->
                SnappedPoint(ns[k].point, source, "SNAPTARGET_NODE",
                             L2sq(PSub(ns[k].point, p)), Sq(tol), always, FALSE)], 1)

\* ObjectSnapper::constrainedSnap: only the nodes on the constraint line
RECURSIVE OnConstraint(_, _, _, _)
OnConstraint(list, c, p, k) ==
    IF k > Len(list) THEN <<>>
    ELSE (IF OnLine(c, IF c.has_point THEN c.point ELSE p, list[k].point)
          THEN <<list[k]>> ELSE <<>>)
         \o OnConstraint(list, c, p, k + 1)


----------------------------------------------------------------------------
(* The snappers a SnapManager has                                          *)

\* the snappers of getSnappers(), in its order: the grid snappers spliced in
\* front of the guide and the object snapper
getGridSnappers ==
    IF _desktop # NULL /\ _desktop[1].gridsEnabled /\ snapprefs.snap_to_grids
    THEN [k \in 1..Len(Grids) |-> [kind |-> "grid", grid |-> k]]
    ELSE <<>>

getSnappers ==
    getGridSnappers \o << [kind |-> "guide", grid |-> 0], [kind |-> "object", grid |-> 0] >>

\* Snapper::ThisSnapperMightSnap() of each kind of snapper
ThisSnapperMightSnap(s) ==
    CASE s.kind = "grid"   -> snapprefs.snap_to_grids
      [] s.kind = "guide"  -> snapprefs.snap_to_guides /\ Guides # <<>>
      [] s.kind = "object" -> snapprefs.snap_to_objects /\ Nodes \o Paths # <<>>

someSnapperMightSnapMutant ==
    /\ snapprefs.snap_enabled_globally
    /\ \E k \in 1..Len(getSnappers) : ThisSnapperMightSnap(getSnappers[k])

someSnapperMightSnap ==
    /\ ~(~snapprefs.snap_enabled_globally \/ snapprefs.snap_postponed_globally)
    /\ \E k \in 1..Len(getSnappers) : ThisSnapperMightSnap(getSnappers[k])

gridSnapperMightSnap ==
    /\ ~(~snapprefs.snap_enabled_globally \/ snapprefs.snap_postponed_globally)
    /\ \E k \in 1..Len(getGridSnappers) : ThisSnapperMightSnap(getGridSnappers[k])

----------------------------------------------------------------------------
(* The snappers, as the manager calls them                                 *)

\* the guides a query looks at: all but the guide being dragged
RECURSIVE GuidesButIgnored(_)
GuidesButIgnored(k) ==
    IF k > Len(Guides) THEN <<>>
    ELSE (IF <<Guides[k].id>> = _guide_to_ignore THEN <<>> ELSE <<Guides[k]>>)
         \o GuidesButIgnored(k + 1)

\* (*i)->freeSnap(sc, ...): what snapper s appends to the candidates sc
SnapperFreeSnap(s, sc, p, source, ignore) ==
    IF ~ThisSnapperMightSnap(s) THEN sc
    ELSE CASE s.kind = "grid" ->
                [sc EXCEPT !.grid_lines = @ \o
                    LineFreeSnap(GridLines(Grids[s.grid], p), p, source,
                                 "SNAPTARGET_GRID", snapprefs.tolerance, FALSE)]
           [] s.kind = "guide" ->
                [sc EXCEPT !.guide_lines = @ \o
                    LineFreeSnap(GuidesButIgnored(1), p, source, "SNAPTARGET_GUIDE",
                                 snapprefs.tolerance, snapprefs.guide_always_snap)]
           [] s.kind = "object" ->
                [sc EXCEPT
                    !.points = @ \o ObjectNodes(p, source, snapprefs.tolerance,
                                                FALSE, ignore),
                    !.curves = @ \o
                        LineFreeSnap(NotIgnored(Paths, ignore, 1), p, source,
                                     "SNAPTARGET_PATH", snapprefs.tolerance, FALSE)]

\* (*i)->constrainedSnap(sc, ...): only candidates on the constraint line c,
\* each a SnappedPoint: a node on the line, or the crossing of the line with a
\* grid line, a guide or a path
SnapperConstrainedSnap(s, sc, p, source, c, ignore) ==
    IF ~ThisSnapperMightSnap(s) THEN sc
    ELSE CASE s.kind = "grid" ->
                [sc EXCEPT !.points = @ \o
                    LineConstrainedSnap(GridLines(Grids[s.grid], p), p, source,
                                        "SNAPTARGET_GRID", snapprefs.tolerance,
                                        FALSE, c)]
           [] s.kind = "guide" ->
                [sc EXCEPT !.points = @ \o
                    LineConstrainedSnap(GuidesButIgnored(1), p, source,
                                        "SNAPTARGET_GUIDE", snapprefs.tolerance,
                                        snapprefs.guide_always_snap, c)]
           [] s.kind = "object" ->
                [sc EXCEPT
                    !.points = @ \o
                        OnConstraint(ObjectNodes(p, source, snapprefs.tolerance,
                                                 FALSE, ignore), c, p, 1)
                        \o LineConstrainedSnap(NotIgnored(Paths, ignore, 1), p,
                                               source, "SNAPTARGET_PATH",
                                               snapprefs.tolerance, FALSE, c)]

----------------------------------------------------------------------------
(* SnapManager::findBestSnap                                               *)

setSource(list, source) ==
    [k \in 1..Len(list) |-> [list[k] EXCEPT !.source = source]]

ofLine(list) ==
    [k \in 1..Len(list) |-> SnappedPointOfLine(list[k])]

sp_listUnconstrained(p, source_type, sc, constrained) ==
    getClosest(sc.points, 1, <<>>)
    \o ofLine(getClosest(sc.curves, 1, <<>>))
    \o (IF snapprefs.intersectionCS
        THEN setSource(getClosestIntersectionSL(sc.curves, "SNAPTARGET_PATH_INTERSECTION"),
                       source_type)
        ELSE <<>>)
    \o ofLine(getClosest(sc.grid_lines, 1, <<>>))
    \o ofLine(getClosest(sc.guide_lines, 1, <<>>))
    \o setSource(getClosestIntersectionSL(sc.grid_lines, "SNAPTARGET_GRID_INTERSECTION"),
                 source_type)
    \o setSource(getClosestIntersectionSL(sc.guide_lines, "SNAPTARGET_GUIDE_INTERSECTION"),
                 source_type)
    \o (IF snapprefs.intersectionGG
        THEN setSource(getClosestIntersectionSL2(sc.grid_lines, sc.guide_lines,
                           "SNAPTARGET_GRID_GUIDE_INTERSECTION"), source_type)
        ELSE <<>>)

sp_listMutant(p, source_type, sc, constrained) ==
    ofLine(getClosest(sc.grid_lines, 1, <<>>))
    \o ofLine(getClosest(sc.guide_lines, 1, <<>>))
    \o getClosest(sc.points, 1, <<>>)
    \o ofLine(getClosest(sc.curves, 1, <<>>))

\* the list of candidates findBestSnap chooses from, in the order it builds it
sp_list(p, source_type, sc, constrained) ==
    getClosest(sc.points, 1, <<>>)
    \o ofLine(getClosest(sc.curves, 1, <<>>))
    \o (IF snapprefs.intersectionCS
        THEN setSource(getClosestIntersectionSL(sc.curves, "SNAPTARGET_PATH_INTERSECTION"),
                       source_type)
        ELSE <<>>)
    \o ofLine(getClosest(sc.grid_lines, 1, <<>>))
    \o ofLine(getClosest(sc.guide_lines, 1, <<>>))
    \o (IF ~constrained
        THEN setSource(getClosestIntersectionSL(sc.grid_lines,
                                                "SNAPTARGET_GRID_INTERSECTION"),
                       source_type)
             \o setSource(getClosestIntersectionSL(sc.guide_lines,
                                                   "SNAPTARGET_GUIDE_INTERSECTION"),
                          source_type)
             \o (IF snapprefs.intersectionGG
                 THEN setSource(getClosestIntersectionSL2(sc.grid_lines, sc.guide_lines,
                                    "SNAPTARGET_GRID_GUIDE_INTERSECTION"), source_type)
                 ELSE <<>>)
        ELSE <<>>)

\* the loop over sp_list: the candidates within their tolerance, each taken when
\* it is the first of the list or a better snap than the best so far
RECURSIVE thumbsUpFirst(_, _, _)
thumbsUpFirst(list, k, best) ==
    IF k > Len(list) THEN best
    ELSE IF Le(list[k].distance, list[k].tolerance) THEN list[k]
    ELSE thumbsUpFirst(list, k + 1, best)

RECURSIVE thumbsUpLast(_, _, _)
thumbsUpLast(list, k, best) ==
    IF k > Len(list) THEN best
    ELSE thumbsUpLast(list, k + 1,
                      IF Le(list[k].distance, list[k].tolerance)
                      THEN list[k] ELSE best)

RECURSIVE thumbsUpSwapped(_, _, _)
thumbsUpSwapped(list, k, best) ==
    IF k > Len(list) THEN best
    ELSE thumbsUpSwapped(list, k + 1,
                         IF /\ Le(list[k].distance, list[k].tolerance)
                            /\ (k = 1 \/ isOtherSnapBetter(list[k], best, FALSE))
                         THEN list[k] ELSE best)

RECURSIVE thumbsUpNotSentinel(_, _, _)
thumbsUpNotSentinel(list, k, best) ==
    IF k > Len(list) THEN best
    ELSE thumbsUpNotSentinel(list, k + 1,
                             IF /\ Le(list[k].distance, list[k].tolerance)
                                /\ \/ k = 1
                                   \/ /\ getSnapped(best)
                                      /\ isOtherSnapBetter(best, list[k], FALSE)
                             THEN list[k] ELSE best)

RECURSIVE thumbsUp(_, _, _)
thumbsUp(list, k, best) ==
    IF k > Len(list) THEN best
    ELSE thumbsUp(list, k + 1,
                  IF /\ Le(list[k].distance, list[k].tolerance)
                     /\ (k = 1 \/ isOtherSnapBetter(best, list[k], FALSE))
                  THEN list[k] ELSE best)

indicatedMutant(bestSnappedPoint) ==
    [ret |-> bestSnappedPoint,
     indicator |-> IF _snapindicator THEN <<"set_new_snaptarget">> ELSE <<>>]

\* "Update the snap indicator, if requested"
indicated(bestSnappedPoint) ==
    [ret |-> bestSnappedPoint,
     indicator |-> IF _snapindicator
                   THEN (IF getSnapped(bestSnappedPoint)
                         THEN <<"set_new_snaptarget">>
                         ELSE <<"remove_snaptarget">>)
                   ELSE <<>>]

\* the result of findBestSnap, with the call it makes on the snap indicator
findBestSnap(p, source_type, sc, constrained) ==
    indicated(thumbsUp(sp_list(p, source_type, sc, constrained), 1,
                       SnappedPoint(p, "SNAPSOURCE_UNDEFINED", "SNAPTARGET_UNDEFINED",
                                    NR_HUGE, R(0), FALSE, FALSE)))

----------------------------------------------------------------------------
(* SnapManager::freeSnap and SnapManager::constrainedSnap                  *)

\* the list of items handed to the snappers
items_to_ignore ==
    IF _item_to_ignore # NULL THEN <<_item_to_ignore>> ELSE _items_to_ignore

\* the ignore list as a snapper reads it (a NULL list ignores nothing)
Ignored(list) ==
    IF list = NULL THEN <<>> ELSE list[1]

RECURSIVE fanOutFree(_, _, _, _)
fanOutFree(k, sc, p, source) ==
    IF k > Len(getSnappers) THEN sc
    ELSE fanOutFree(k + 1,
                    SnapperFreeSnap(getSnappers[k], sc, p, source,
                                    Ignored(items_to_ignore)),
                    p, source)

RECURSIVE fanOutConstrained(_, _, _, _, _)
fanOutConstrained(k, sc, pp, source, c) ==
    IF k > Len(getSnappers) THEN sc
    ELSE fanOutConstrained(k + 1,
                           SnapperConstrainedSnap(getSnappers[k], sc, pp, source, c,
                                                  Ignored(items_to_ignore)),
                           pp, source, c)

RECURSIVE callsOfThoseThatMightSnap(_, _, _, _)
callsOfThoseThatMightSnap(method, p, constraint, k) ==
    IF k > Len(getSnappers) THEN <<>>
    ELSE (IF ThisSnapperMightSnap(getSnappers[k])
          THEN << [snapper |-> getSnappers[k], method |-> method, p |-> p,
                   constraint |-> constraint,
                   items_to_ignore |-> items_to_ignore,
                   unselected_nodes |-> _unselected_nodes] >>
          ELSE <<>>)
         \o callsOfThoseThatMightSnap(method, p, constraint, k + 1)

snapperCallsMutant(method, p, constraint) ==
    callsOfThoseThatMightSnap(method, p, constraint, 1)

\* the calls a fan-out makes: one per snapper of getSnappers(), each with the
\* point and the constraint line the snapper is given (<<>> for a freeSnap,
\* which is given none)
snapperCalls(method, p, constraint) ==
    [k \in 1..Len(getSnappers) |->
        [snapper |-> getSnappers[k], method |-> method, p |-> p,
         constraint |-> constraint,
         items_to_ignore |-> items_to_ignore,
         unselected_nodes |-> _unselected_nodes]]

\* what a primitive hands back: the result of findBestSnap and the calls made
returned(r, calls) ==
    [ret |-> r.ret, calls |-> calls, indicator |-> r.indicator]

freeSnapMutant(p, source_type) ==
    returned(findBestSnap(p, source_type, fanOutFree(1, EmptySC, p, source_type),
                          FALSE),
             snapperCalls("freeSnap", p, <<>>))

\* freeSnap(point_type, p, source_type, first_point, bbox_to_snap)
freeSnap(p, source_type) ==
    IF ~someSnapperMightSnap
    THEN [ret |-> SnappedPoint(p, source_type, "SNAPTARGET_UNDEFINED", NR_HUGE,
                               R(0), FALSE, FALSE),
          calls |-> <<>>, indicator |-> <<>>]
    ELSE returned(findBestSnap(p, source_type,
                               fanOutFree(1, EmptySC, p, source_type), FALSE),
                  snapperCalls("freeSnap", p, <<>>))

constrainedSnapUnprojected(p, source_type, constraint) ==
    IF ~someSnapperMightSnap
    THEN [ret |-> SnappedPoint(p, source_type, "SNAPTARGET_UNDEFINED", NR_HUGE,
                               R(0), FALSE, FALSE),
          calls |-> <<>>, indicator |-> <<>>]
    ELSE returned(findBestSnap(p, source_type,
                               fanOutConstrained(1, EmptySC, p, source_type,
                                                 constraint), TRUE),
                  snapperCalls("constrainedSnap", p, constraint))

constrainedSnapMutant(p, source_type, constraint) ==
    freeSnap(p, source_type)

\* constrainedSnap(point_type, p, source_type, constraint, ...)
constrainedSnap(p, source_type, constraint) ==
    IF ~someSnapperMightSnap
    THEN [ret |-> SnappedPoint(p, source_type, "SNAPTARGET_UNDEFINED", NR_HUGE,
                               R(0), FALSE, FALSE),
          calls |-> <<>>, indicator |-> <<>>]
    ELSE returned(findBestSnap(p, source_type,
                               fanOutConstrained(1, EmptySC,
                                                 projection(constraint, p),
                                                 source_type, constraint), TRUE),
                  snapperCalls("constrainedSnap", projection(constraint, p),
                               constraint))

----------------------------------------------------------------------------
(* SnapManager::guideFreeSnap and SnapManager::guideConstrainedSnap        *)

\* Geom::rot90
rot90(p) ==
    <<Neg(p[2]), p[1]>>

\* ObjectSnapper::guideFreeSnap: the nodes within the tolerance of the guide
\* through p with the normal n, whose foot on the guide is within the tolerance
\* of p
RECURSIVE GuideNodes(_, _, _, _)
GuideNodes(p, n, tol, k) ==
    IF k > Len(Nodes) THEN <<>>
    ELSE (IF /\ Lt(Div(Sq(Dot(PSub(Nodes[k].point, p), n)), Dot(n, n)), Sq(tol))
             /\ Lt(Div(Sq(Dot(PSub(Nodes[k].point, p), rot90(n))), Dot(n, n)), Sq(tol))
          THEN <<SnappedPoint(Nodes[k].point, "SNAPSOURCE_GUIDE", "SNAPTARGET_NODE",
                              Div(Sq(Dot(PSub(Nodes[k].point, p), n)), Dot(n, n)),
                              Sq(tol), FALSE, FALSE)>>
          ELSE <<>>)
         \o GuideNodes(p, n, tol, k + 1)

\* ObjectSnapper::GuidesMightSnap()
GuidesMightSnap ==
    snapprefs.snap_to_objects /\ Nodes # <<>>

\* a call of a snapper that is handed no list of items and no nodes
guideCall(kind, method, p) ==
    [snapper |-> [kind |-> kind, grid |-> 0], method |-> method, p |-> p,
     items_to_ignore |-> NULL, unselected_nodes |-> NULL]

\* s.getPoint(p): p is overwritten when s is snapped
guideSnapped(p, s, calls) ==
    [ret |-> s.ret, p |-> IF getSnapped(s.ret) THEN s.ret.point ELSE p,
     calls |-> calls, indicator |-> s.indicator, snapped |-> <<>>, warnings |-> <<>>]

\* the return before any snapper is asked
guideUntouched(p) ==
    [ret |-> SnappedPoint(p, "SNAPSOURCE_GUIDE", "SNAPTARGET_UNDEFINED", NR_HUGE,
                          R(0), FALSE, FALSE),
     p |-> p, calls |-> <<>>, indicator |-> <<>>, snapped |-> <<>>, warnings |-> <<>>]

\* the candidates of guideFreeSnap: to those of the object snapper, sc, the
\* guide snapper adds its own when the guides are snapped to
guideFreeCandidates(sc, p) ==
    IF snapprefs.snap_to_guides
    THEN SnapperFreeSnap([kind |-> "guide", grid |-> 0], sc, p, "SNAPSOURCE_GUIDE", <<>>)
    ELSE sc

\* guideFreeSnap(p, guide_normal)
guideFreeSnap(p, guide_normal) ==
    IF ~snapprefs.snap_enabled_globally \/ snapprefs.snap_postponed_globally
    THEN guideUntouched(p)
    ELSE IF ~(GuidesMightSnap \/ snapprefs.snap_to_guides) THEN guideUntouched(p)
    ELSE guideSnapped(p,
            findBestSnap(p, "SNAPSOURCE_GUIDE",
                guideFreeCandidates(
                    [EmptySC EXCEPT !.points =
                        IF GuidesMightSnap
                        THEN GuideNodes(p, guide_normal, snapprefs.tolerance, 1)
                        ELSE <<>>],
                    p),
                FALSE),
            (IF GuidesMightSnap THEN <<guideCall("object", "guideFreeSnap", p)>>
             ELSE <<>>)
            \o (IF snapprefs.snap_to_guides THEN <<guideCall("guide", "freeSnap", p)>>
                ELSE <<>>))

\* the constraint line of a guide: through point_on_line, along the guide
guideConstraint(guideline) ==
    ConstraintLine(guideline.point_on_line, rot90(guideline.normal_to_line), TRUE)

\* the candidates of guideConstrainedSnap: to those of the object snapper, sc,
\* the guide snapper adds its own when the guides are snapped to
guideCandidates(sc, p, cl) ==
    IF snapprefs.snap_to_guides
    THEN SnapperConstrainedSnap([kind |-> "guide", grid |-> 0], sc, p,
                                "SNAPSOURCE_GUIDE_ORIGIN", cl, <<>>)
    ELSE sc

guideConstrainedSnapMutant(p, guideline) ==
    guideFreeSnap(p, guideline.normal_to_line)

\* guideConstrainedSnap(p, guideline)
guideConstrainedSnap(p, guideline) ==
    IF ~snapprefs.snap_enabled_globally \/ snapprefs.snap_postponed_globally
    THEN guideUntouched(p)
    ELSE IF ~(ThisSnapperMightSnap([kind |-> "object", grid |-> 0])
              \/ snapprefs.snap_to_guides)
    THEN guideUntouched(p)
    ELSE guideSnapped(p,
            findBestSnap(p, "SNAPSOURCE_GUIDE",
                         guideCandidates(
                            SnapperConstrainedSnap([kind |-> "object", grid |-> 0],
                                                   EmptySC, p, "SNAPSOURCE_GUIDE_ORIGIN",
                                                   guideConstraint(guideline), <<>>),
                            p, guideConstraint(guideline)),
                         FALSE),
            (IF ThisSnapperMightSnap([kind |-> "object", grid |-> 0])
             THEN <<guideCall("object", "constrainedSnap", p)>> ELSE <<>>)
            \o (IF snapprefs.snap_to_guides
                THEN <<guideCall("guide", "constrainedSnap", p)>> ELSE <<>>))

----------------------------------------------------------------------------
(* SnapManager::multipleOfGridPitch                                        *)

\* what the loop over the grids has found so far
NoMultiple ==
    [success |-> FALSE, nearest_multiple |-> Pt(0, 0), nearest_distance |-> NR_HUGE,
     grid |-> 0, calls |-> <<>>, indicator |-> <<>>]

nearerMultipleMutant(acc, k, t_offset, s) ==
    [success |-> acc.success \/ (getSnapped(s.ret) /\ Lt(s.ret.distance, acc.nearest_distance)),
     nearest_multiple |->
        IF getSnapped(s.ret) /\ Lt(s.ret.distance, acc.nearest_distance)
        THEN s.ret.point ELSE acc.nearest_multiple,
     nearest_distance |->
        IF getSnapped(s.ret) /\ Lt(s.ret.distance, acc.nearest_distance)
        THEN s.ret.distance ELSE acc.nearest_distance,
     grid |->
        IF getSnapped(s.ret) /\ Lt(s.ret.distance, acc.nearest_distance)
        THEN k ELSE acc.grid,
     calls |-> acc.calls \o
        << [snapper |-> [kind |-> "grid", grid |-> k], method |-> "freeSnap",
            p |-> t_offset, items_to_ignore |-> NULL, unselected_nodes |-> NULL] >>,
     indicator |-> acc.indicator \o s.indicator]

\* the body of the loop for grid k, s the best snap of t_offset to that grid
nearerMultiple(acc, k, t_offset, s) ==
    [success |-> acc.success \/ (getSnapped(s.ret) /\ Lt(s.ret.distance, acc.nearest_distance)),
     nearest_multiple |->
        IF getSnapped(s.ret) /\ Lt(s.ret.distance, acc.nearest_distance)
        THEN PSub(s.ret.point, Grids[k].origin) ELSE acc.nearest_multiple,
     nearest_distance |->
        IF getSnapped(s.ret) /\ Lt(s.ret.distance, acc.nearest_distance)
        THEN s.ret.distance ELSE acc.nearest_distance,
     grid |->
        IF getSnapped(s.ret) /\ Lt(s.ret.distance, acc.nearest_distance)
        THEN k ELSE acc.grid,
     calls |-> acc.calls \o
        << [snapper |-> [kind |-> "grid", grid |-> k], method |-> "freeSnap",
            p |-> t_offset, items_to_ignore |-> NULL, unselected_nodes |-> NULL] >>,
     indicator |-> acc.indicator \o s.indicator]

\* the loop over _named_view->grids
RECURSIVE nearestMultiple(_, _, _)
nearestMultiple(k, t, acc) ==
    IF k > Len(Grids) THEN acc
    ELSE nearestMultiple(k + 1, t,
            IF ~ThisSnapperMightSnap([kind |-> "grid", grid |-> k]) THEN acc
            ELSE nearerMultiple(acc, k, PAdd(t, Grids[k].origin),
                    findBestSnap(PAdd(t, Grids[k].origin), "SNAPSOURCE_UNDEFINED",
                                 SnapperFreeSnap([kind |-> "grid", grid |-> k], EmptySC,
                                                 PAdd(t, Grids[k].origin),
                                                 "SNAPSOURCE_UNDEFINED", <<>>),
                                 FALSE)))

\* what multipleOfGridPitch hands back
pitchReturned(t, found) ==
    [offset |-> IF found.success THEN found.nearest_multiple ELSE t,
     success |-> found.success, grid |-> found.grid,
     calls |-> found.calls, indicator |-> found.indicator]

multipleOfGridPitchMutant(t) ==
    IF _desktop # NULL /\ _desktop[1].gridsEnabled
    THEN pitchReturned(t, nearestMultiple(1, t, NoMultiple))
    ELSE pitchReturned(t, NoMultiple)

multipleOfGridPitchUnlessPostponed(t) ==
    IF ~snapprefs.snap_enabled_globally \/ snapprefs.snap_postponed_globally
    THEN pitchReturned(t, NoMultiple)
    ELSE IF _desktop # NULL /\ _desktop[1].gridsEnabled
         THEN pitchReturned(t, nearestMultiple(1, t, NoMultiple))
         ELSE pitchReturned(t, NoMultiple)

\* multipleOfGridPitch(t)
multipleOfGridPitch(t) ==
    IF ~snapprefs.snap_enabled_globally THEN pitchReturned(t, NoMultiple)
    ELSE IF _desktop # NULL /\ _desktop[1].gridsEnabled
         THEN pitchReturned(t, nearestMultiple(1, t, NoMultiple))
         ELSE pitchReturned(t, NoMultiple)

----------------------------------------------------------------------------
(* SnapManager::_transformPoint and SnapManager::_snapTransformed          *)

\* 1e6 (the bound on a metric) and 1e-6 = 1 / Micro (the alignment epsilon)
Million ==
    1000000

Micro ==
    1000000

\* fabs(x) < 1e-6, that is |n| * Micro < d for x = n/d
Negligible(x) ==
    IsFin(x) /\ AbsInt(x[1]) <= (x[2] - 1) \div Micro

\* fabs(x) > 1e-6, that is |n| * Micro > d for x = n/d
Noticeable(x) ==
    /\ ~IsNaN(x)
    /\ IsFin(x) => AbsInt(x[1]) > x[2] \div Micro

\* x > 1e-12: every value of the model that is above zero is above 1e-12
Above1e12(x) ==
    Lt(R(0), x)

\* x < 1e6
Below1e6(x) ==
    IF IsFin(x) THEN x[1] \div Million < x[2] ELSE Lt(x, R(0))

\* d < 1e6 for a distance d kept as its square
Below1e12(dsq) ==
    IsFin(dsq) /\ (dsq[1] \div Million) \div Million < dsq[2]

_transformPoint(p, transformation_type, transformation, origin, dim, uniform) ==
    CASE transformation_type = "TRANSLATION" ->
            PAdd(p.first, transformation)
      [] transformation_type = "SCALE" ->
            LET d == PSub(p.first, origin)
            IN  PAdd(<<Mul(d[X], transformation[X]), Mul(d[Y], transformation[Y])>>,
                     origin)
      [] transformation_type = "STRETCH" ->
            LET f(k) == IF uniform \/ k = dim THEN transformation[dim] ELSE R(1)
                sc == <<f(X), f(Y)>>
                d  == PSub(p.first, origin)
            IN  PAdd(<<Mul(d[X], sc[X]), Mul(d[Y], sc[Y])>>, origin)
      [] transformation_type = "SKEW" ->
            LET f(k) ==
                    IF k = dim
                    THEN Add(p.first[dim],
                             Mul(transformation[1],
                                 Sub(p.first[Other(dim)], origin[Other(dim)])))
                    ELSE Add(Mul(Sub(p.first[Other(dim)], origin[Other(dim)]),
                                 transformation[2]),
                             origin[Other(dim)])
            IN  <<f(X), f(Y)>>

dedicated_constraintMutant(p, constraint, transformation_type, origin, dim, uniform) ==
    constraint

\* the constraint line of one point of a constrained batch
dedicated_constraint(p, constraint, transformation_type, origin, dim, uniform) ==
    IF (transformation_type = "SCALE" \/ transformation_type = "STRETCH") /\ uniform
    THEN ConstraintLine(origin, PSub(p.first, origin), TRUE)
    ELSE IF transformation_type = "STRETCH"
    THEN ConstraintLine(p.first, component_vectors(dim), TRUE)
    ELSE IF transformation_type = "TRANSLATION"
    THEN [constraint EXCEPT !.point = p.first, !.has_point = TRUE]
    ELSE constraint

snapOneMutant(p, constrained, constraint, transformation_type, transformation, origin, dim, uniform) ==
    IF constrained
    THEN constrainedSnap(_transformPoint(p, transformation_type, transformation,
                                         origin, dim, uniform),
                         p.second,
                         dedicated_constraint(p, constraint, transformation_type,
                                              origin, dim, uniform))
    ELSE freeSnap(_transformPoint(p, transformation_type, transformation, origin,
                                  dim, uniform),
                  p.second)

\* the snap of one point of the batch: its transformed position is snapped
\* freely or along a constraint line
snapOne(p, constrained, constraint, transformation_type, transformation, origin, dim, uniform) ==
    LET t  == _transformPoint(p, transformation_type, transformation, origin, dim,
                              uniform)
        b  == PSub(p.first, origin)
        c1 == Negligible(b[X])
        c2 == Negligible(b[Y])
    IN  IF constrained \/ (transformation_type = "SCALE" /\ (c1 \/ c2) /\ ~(c1 /\ c2))
        THEN constrainedSnap(t, p.second,
                             IF constrained
                             THEN dedicated_constraint(p, constraint,
                                                       transformation_type, origin,
                                                       dim, uniform)
                             ELSE ConstraintLine(origin,
                                                 component_vectors(IF c1 THEN Y ELSE X),
                                                 TRUE))
        ELSE freeSnap(t, p.second)

scaleResultMutant(a, b, transformation) ==
    LET f(index) == IF Noticeable(b[index]) THEN Div(a[index], b[index]) ELSE NR_HUGE
    IN  <<f(X), f(Y)>>

\* case SCALE: the factor recovered on each axis, NR_HUGE where the point cannot
\* scale or did not snap on that axis
scaleResult(a, b, transformation) ==
    LET f(index) ==
            IF /\ Noticeable(b[index])
               /\ Above1e12(Fabs(Sub(Fabs(Div(a[index], b[index])),
                                     Fabs(transformation[index]))))
            THEN Div(a[index], b[index])
            ELSE NR_HUGE
    IN  <<f(X), f(Y)>>

\* case STRETCH
stretchResult(a, b, dim, uniform) ==
    IF Noticeable(b[dim])
    THEN LET f(k) == IF k = dim \/ uniform THEN Div(a[dim], b[dim]) ELSE R(1)
         IN  <<f(X), f(Y)>>
    ELSE IF uniform /\ Noticeable(b[Other(dim)])
    THEN <<Div(a[Other(dim)], b[Other(dim)]), Div(a[Other(dim)], b[Other(dim)])>>
    ELSE <<NR_HUGE, NR_HUGE>>

\* case SKEW: <<skew factor, scale factor>>
skewResult(snapped, p, transformation, origin, dim) ==
    <<Div(Sub(snapped[dim], p.first[dim]),
          Sub(p.first[Other(dim)], origin[Other(dim)])),
      transformation[2]>>

scaleAxisMutant(acc, index, result, scale_metric, snapped_point) ==
    IF Lt(Fabs(scale_metric[index]), Fabs(acc.best_scale_metric[index]))
    THEN [acc EXCEPT !.best_transformation[index] = result[index],
                     !.best_scale_metric[index] = Fabs(scale_metric[index]),
                     !.best_snapped_point =
                        IF getSnapped(acc.best_snapped_point)
                        THEN acc.best_snapped_point ELSE snapped_point]
    ELSE acc

\* the per-axis bookkeeping of a SCALE: an axis whose metric improves takes the
\* point's factor, and the point becomes the best snapped point; a uniform scale
\* then copies the axis with the smaller metric to the other one
scaleAxis(acc, index, result, scale_metric, snapped_point) ==
    IF Lt(Fabs(scale_metric[index]), Fabs(acc.best_scale_metric[index]))
    THEN [acc EXCEPT !.best_transformation[index] = result[index],
                     !.best_scale_metric[index] = Fabs(scale_metric[index]),
                     !.best_snapped_point = snapped_point]
    ELSE acc

scaleUniformMutant(acc, uniform) ==
    acc

scaleUniform(acc, uniform) ==
    IF ~uniform THEN acc
    ELSE IF Lt(acc.best_scale_metric[X], acc.best_scale_metric[Y])
    THEN [acc EXCEPT !.best_transformation[Y] = acc.best_transformation[X],
                     !.best_scale_metric[Y] = acc.best_scale_metric[X]]
    ELSE [acc EXCEPT !.best_transformation[X] = acc.best_transformation[Y],
                     !.best_scale_metric[X] = acc.best_scale_metric[Y]]

loggedMutant(acc, r, warnings) ==
    [acc EXCEPT !.calls = @ \o r.calls,
                !.indicator = r.indicator \o @,
                !.snapped = Append(@, r.ret),
                !.warnings = @ \o warnings]

\* what one turn of the loop adds to the record of the batch: the calls its
\* primitive made, the point it returned, the g_warning it raised
logged(acc, r, warnings) ==
    [acc EXCEPT !.calls = @ \o r.calls,
                !.indicator = @ \o r.indicator,
                !.snapped = Append(@, r.ret),
                !.warnings = @ \o warnings]

\* setSnapDistance(d); setSecondSnapDistance(NR_HUGE): the metric of a stretch or
\* a skew stored as a virtual distance
setSnapDistance(snapped_point, d) ==
    [snapped_point EXCEPT !.distance = d, !.second_distance = NR_HUGE]

\* "For all transformations other than scaling"
keepBetter(acc, snapped_point, result) ==
    IF isOtherSnapBetter(acc.best_snapped_point, snapped_point, TRUE)
    THEN [acc EXCEPT !.best_transformation = result,
                     !.best_snapped_point = snapped_point]
    ELSE acc

\* a stretch or a skew: the distance of the point becomes the difference between
\* the factor it asks for and the proposed one
keepVirtual(acc, snapped_point, result, transformation, index) ==
    keepBetter(acc,
               setSnapDistance(snapped_point,
                               Sq(Fabs(Sub(result[index], transformation[index])))),
               result)

keepScale(acc, snapped_point, result, transformation, uniform) ==
    scaleUniform(scaleAxis(scaleAxis(acc, X, result, PSub(result, transformation),
                                     snapped_point),
                           Y, result, PSub(result, transformation), snapped_point),
                 uniform)

translationResultMutant(snapped_point, p) ==
    PSub(p.first, snapped_point.point)

\* case TRANSLATION: result = snapped_point.getPoint() - (*i).first
translationResult(snapped_point, p) ==
    PSub(snapped_point.point, p.first)

translationMetricMutant(snapped_point, result) ==
    setSnapDistance(snapped_point, L2sq(result))

\* "Only for translations, the relevant metric will be the real snapped distance,
\* so we don't have to do anything special here"
translationMetric(snapped_point, result) ==
    snapped_point

\* "if (snapped_point.getSnapped())": the transformation that takes the point to
\* where it snapped, kept when it is the best
bookkeeping(acc, snapped_point, p, transformation_type, transformation, origin, dim, uniform) ==
    IF ~getSnapped(snapped_point) THEN acc
    ELSE CASE transformation_type = "TRANSLATION" ->
                keepBetter(acc,
                           translationMetric(snapped_point,
                                             translationResult(snapped_point, p)),
                           translationResult(snapped_point, p))
           [] transformation_type = "SCALE" ->
                keepScale(acc, snapped_point,
                          scaleResult(PSub(snapped_point.point, origin),
                                      PSub(p.first, origin), transformation),
                          transformation, uniform)
           [] transformation_type = "STRETCH" ->
                keepVirtual(acc, snapped_point,
                            stretchResult(PSub(snapped_point.point, origin),
                                          PSub(p.first, origin), dim, uniform),
                            transformation, dim)
           [] transformation_type = "SKEW" ->
                keepVirtual(acc, snapped_point,
                            skewResult(snapped_point.point, p, transformation, origin,
                                       dim),
                            transformation, X)

\* the rest of a turn of the loop, r being what the primitive handed back
afterSnap(acc, r, p, pointer, constrained, transformation_type, transformation, origin, dim, uniform) ==
    bookkeeping(logged(acc, r,
                       IF constrained /\ transformation_type = "SCALE" /\ ~uniform
                       THEN <<"Non-uniform constrained scaling is not supported!">>
                       ELSE <<>>),
                [r.ret EXCEPT !.pointer_distance = L2sq(PSub(pointer, p.first))],
                p, transformation_type, transformation, origin, dim, uniform)

\* one turn of the loop over the points: snap the point, recover the
\* transformation that takes it to where it snapped, keep it when it is the best
snapStep(acc, p, pointer, constrained, constraint, transformation_type, transformation, origin, dim, uniform) ==
    afterSnap(acc,
            snapOne(p, constrained, constraint, transformation_type, transformation,
                    origin, dim, uniform),
            p, pointer, constrained, transformation_type, transformation, origin, dim,
            uniform)

RECURSIVE snapLoop(_, _, _, _, _, _, _, _, _, _, _)
snapLoop(acc, k, points, pointer, constrained, constraint, transformation_type, transformation, origin, dim, uniform) ==
    IF k > Len(points) THEN acc
    ELSE snapLoop(snapStep(acc, points[k], pointer, constrained, constraint,
                           transformation_type, transformation, origin, dim, uniform),
                  k + 1, points, pointer, constrained, constraint,
                  transformation_type, transformation, origin, dim, uniform)

scaleFallbackMutant(best_transformation, transformation, uniform) ==
    best_transformation

\* "When scaling, don't ever exit with one of scaling components set to NR_HUGE"
scaleFallback(best_transformation, transformation, uniform) ==
    LET x == IF best_transformation[X] = NR_HUGE
             THEN (IF uniform /\ Lt(best_transformation[Y], NR_HUGE)
                   THEN best_transformation[Y] ELSE transformation[X])
             ELSE best_transformation[X]
        y == IF best_transformation[Y] = NR_HUGE
             THEN (IF uniform /\ Lt(x, NR_HUGE) THEN x ELSE transformation[Y])
             ELSE best_transformation[Y]
    IN  <<x, y>>

\* what _snapTransformed returns once the loop is over
best(acc, transformation_type, transformation, uniform) ==
    LET scale == transformation_type = "SCALE"
        best_transformation ==
            IF scale
            THEN scaleFallback(acc.best_transformation, transformation, uniform)
            ELSE acc.best_transformation
        best_metric ==
            IF scale
            THEN (IF Below1e6(Min(acc.best_scale_metric[X], acc.best_scale_metric[Y]))
                  THEN Sq(Min(acc.best_scale_metric[X], acc.best_scale_metric[Y]))
                  ELSE NR_HUGE)
            ELSE (IF Below1e12(acc.best_snapped_point.distance)
                  THEN acc.best_snapped_point.distance
                  ELSE NR_HUGE)
    IN  [ret |-> [acc.best_snapped_point EXCEPT
                     !.transformation = best_transformation,
                     !.distance = best_metric],
         calls |-> acc.calls, indicator |-> acc.indicator,
         snapped |-> acc.snapped, warnings |-> acc.warnings]

\* _snapTransformed(type, points, pointer, constrained, constraint,
\*                  transformation_type, transformation, origin, dim, uniform)
_snapTransformed(points, pointer, constrained, constraint, transformation_type, transformation, origin, dim, uniform) ==
    IF ~someSnapperMightSnap
    THEN [ret |-> DefaultSnappedPoint, calls |-> <<>>, indicator |-> <<>>,
          snapped |-> <<>>, warnings |-> <<>>]
    ELSE best(snapLoop([best_transformation |-> transformation,
                        best_scale_metric |-> <<NR_HUGE, NR_HUGE>>,
                        best_snapped_point |-> DefaultSnappedPoint,
                        calls |-> <<>>, indicator |-> <<>>,
                        snapped |-> <<>>, warnings |-> <<>>],
                       1, points, pointer, constrained, constraint,
                       transformation_type, transformation, origin, dim, uniform),
              transformation_type, transformation, uniform)

----------------------------------------------------------------------------
(* The state machine: setup, the preferences, the queries                  *)

\* how many preferences may differ from DefaultPrefs at a time
MaxChanged ==
    1

DefaultPrefs ==
    [snap_enabled_globally |-> TRUE, snap_postponed_globally |-> FALSE,
     snap_to_grids |-> TRUE, snap_to_guides |-> TRUE, snap_to_objects |-> TRUE,
     intersectionGG |-> TRUE, intersectionCS |-> TRUE,
     guide_always_snap |-> FALSE, tolerance |-> R(5)]

Flags ==
    {"snap_enabled_globally", "snap_postponed_globally", "snap_to_grids",
     "snap_to_guides", "snap_to_objects", "intersectionGG", "intersectionCS",
     "guide_always_snap"}

Tolerances ==
    {R(1), R(5)}

Changed(prefs) ==
    Cardinality({f \in DOMAIN prefs : prefs[f] # DefaultPrefs[f]})

Desktops ==
    {[gridsEnabled |-> TRUE, namedview |-> Drawing],
     [gridsEnabled |-> FALSE, namedview |-> Drawing],
     [gridsEnabled |-> FALSE, namedview |-> Blank]}

ItemLists ==
    {<<"item1", "item2">>}

\* the points, constraint lines and transformations the queries are made with
QueryPoints ==
    {Pt(3, 4), Pt(0, 4), Pt(21, 49), Pt(20, 49), Pt(41, 49), Pt(41, 51),
     Pt(43, 49), <<Q(7, 2), R(0)>>}

Constraints ==
    {ConstraintLine(Pt(0, 0), Pt(1, 0), FALSE),
     ConstraintLine(Pt(0, 0), Pt(0, 1), FALSE),
     ConstraintLine(Pt(0, 0), Pt(1, 1), FALSE),
     ConstraintLine(Pt(40, 49), Pt(1, 0), TRUE)}

Node(x, y) ==
    [first |-> Pt(x, y), second |-> "SNAPSOURCE_NODE"]

PointSets ==
    {<<>>, <<Node(0, 0), Node(10, 0)>>, <<Node(10, 10), Node(20, 0)>>,
     <<Node(0, 10), Node(10, 5)>>,
     <<[first |-> <<Q(1, 2), R(0)>>, second |-> "SNAPSOURCE_NODE"]>>}

Translations ==
    {<<R(3), Q(1, 5)>>, Pt(1, -1), Pt(31, 39)}

Scales ==
    {<<Q(21, 10), Q(21, 10)>>, <<Q(21, 10), Q(19, 10)>>, Pt(2, -2)}

Origins ==
    {Pt(0, 0), Pt(10, 0)}

Stretches ==
    {Q(21, 10), R(2)}

Skews ==
    {Q(1, 10), R(0), R(2)}

Idle ==
    [op |-> "idle"]

Init ==
    /\ snapprefs = DefaultPrefs
    /\ _desktop = NULL
    /\ _item_to_ignore = NULL
    /\ _items_to_ignore = NULL
    /\ _snapindicator \in BOOLEAN
    /\ _unselected_nodes = NULL
    /\ _guide_to_ignore = NULL
    /\ last = Idle

setup1Mutant ==
    /\ last = Idle
    /\ \E desktop \in Desktops, snapindicator \in BOOLEAN,
          item_to_ignore \in {NULL, <<"item1">>} :
            /\ _item_to_ignore' = item_to_ignore
            /\ _desktop' = <<desktop>>
            /\ _snapindicator' = snapindicator
            /\ _unselected_nodes' = NULL
            /\ _guide_to_ignore' = NULL
    /\ UNCHANGED <<snapprefs, last, _items_to_ignore>>

\* setup(desktop, snapindicator, item_to_ignore, unselected_nodes, guide_to_ignore)
setup1 ==
    /\ last = Idle
    /\ \E desktop \in Desktops, snapindicator \in BOOLEAN,
          item_to_ignore \in {NULL, <<"item1">>} :
            /\ _item_to_ignore' = item_to_ignore
            /\ _items_to_ignore' = NULL
            /\ _desktop' = <<desktop>>
            /\ _snapindicator' = snapindicator
            /\ _unselected_nodes' = NULL
            /\ _guide_to_ignore' = NULL
    /\ UNCHANGED <<snapprefs, last>>

\* setup(desktop, snapindicator, items_to_ignore, unselected_nodes, guide_to_ignore)
setup2 ==
    /\ last = Idle
    /\ \E desktop \in Desktops, snapindicator \in BOOLEAN,
          list \in ItemLists :
            /\ _item_to_ignore' = NULL
            /\ _items_to_ignore' = <<list>>
            /\ _desktop' = <<desktop>>
            /\ _snapindicator' = snapindicator
            /\ _unselected_nodes' = NULL
            /\ _guide_to_ignore' = NULL
    /\ UNCHANGED <<snapprefs, last>>

\* the preferences collaborator changes a flag or the tolerance
SetFlag ==
    /\ last = Idle
    /\ \E f \in Flags, b \in BOOLEAN :
          /\ Changed([snapprefs EXCEPT ![f] = b]) <= MaxChanged
          /\ snapprefs' = [snapprefs EXCEPT ![f] = b]
    /\ UNCHANGED <<session, last>>

SetTolerance ==
    /\ last = Idle
    /\ \E t \in Tolerances :
          /\ Changed([snapprefs EXCEPT !.tolerance = t]) <= MaxChanged
          /\ snapprefs' = [snapprefs EXCEPT !.tolerance = t]
    /\ UNCHANGED <<session, last>>

\* what a primitive hands back, in the shape of a batch's record
Single(r) ==
    [ret |-> r.ret, calls |-> r.calls, indicator |-> r.indicator,
     snapped |-> <<>>, warnings |-> <<>>]

NoBatch ==
    [points |-> <<>>, pointer |-> Pt(0, 0), constrained |-> FALSE,
     type |-> "NONE", transformation |-> Pt(0, 0), origin |-> Pt(0, 0),
     dim |-> X, uniform |-> FALSE]

Query(op, p, c, batch, out) ==
    [op |-> op, p |-> p, constraint |-> c, batch |-> batch, out |-> out]

NoConstraint ==
    ConstraintLine(Pt(0, 0), Pt(0, 0), FALSE)

FreeSnapMutant ==
    /\ last = Idle
    /\ _desktop # NULL
    /\ \E p \in QueryPoints :
          last' = Query("freeSnap", p, NoConstraint, NoBatch,
                        Single(freeSnap(p, "SNAPSOURCE_NODE")))
    /\ _item_to_ignore' = NULL
    /\ UNCHANGED <<snapprefs, _desktop, _items_to_ignore, _snapindicator, _unselected_nodes, _guide_to_ignore>>

FreeSnap ==
    /\ last = Idle
    /\ _desktop # NULL
    /\ \E p \in QueryPoints :
          last' = Query("freeSnap", p, NoConstraint, NoBatch,
                        Single(freeSnap(p, "SNAPSOURCE_NODE")))
    /\ UNCHANGED <<snapprefs, session>>

ConstrainedSnap ==
    /\ last = Idle
    /\ _desktop # NULL
    /\ \E p \in QueryPoints, c \in Constraints :
          last' = Query("constrainedSnap", p, c, NoBatch,
                        Single(constrainedSnap(p, "SNAPSOURCE_NODE", c)))
    /\ UNCHANGED <<snapprefs, session>>

\* What the read of _desktop yields in a query made before any setup: the
\* constructor leaves the pointer uninitialised, so that _desktop->event_context
\* is a read through an indeterminate pointer. It faults, or it reads memory
\* that holds no event context, or memory that looks like an event context
\* whose snap window is closed.
Indeterminate ==
    {"fault", "no event context", "snap window closed"}

\* freeSnap and constrainedSnap up to their first return, made before any setup
beforeSetup(p, source_type, read) ==
    [crashed |-> read = "fault",
     ret |-> SnappedPoint(p, source_type, "SNAPTARGET_UNDEFINED", NR_HUGE, R(0),
                          FALSE, FALSE),
     calls |-> <<>>, indicator |-> <<>>, snapped |-> <<>>,
     warnings |-> IF read = "snap window closed"
                  THEN <<"The current tool tries to snap, but it hasn't yet opened the snap window. Please report this!">>
                  ELSE <<>>]

\* a freeSnap or a constrainedSnap on a snap manager that was never set up
QueryBeforeSetup ==
    /\ last = Idle
    /\ _desktop = NULL
    /\ \E p \in {Pt(3, 4), Pt(21, 49)}, read \in Indeterminate :
          last' = Query("beforeSetup", p, NoConstraint, NoBatch,
                        beforeSetup(p, "SNAPSOURCE_NODE", read))
    /\ UNCHANGED <<snapprefs, session>>

\* the guides that are dragged, each with the point of it that is snapped: a
\* diagonal guide, a guide of the document and a new horizontal guide
GuideDrags ==
    {[p |-> Pt(21, 49), guideline |-> [point_on_line |-> Pt(21, 49), normal_to_line |-> Pt(1, -1)]],
     [p |-> Pt(43, 50), guideline |-> [point_on_line |-> Pt(0, 50), normal_to_line |-> Pt(0, 1)]],
     [p |-> Pt(41, 49), guideline |-> [point_on_line |-> Pt(40, 49), normal_to_line |-> Pt(0, 1)]]}

\* setup(desktop, snapindicator, NULL, NULL, guide_to_ignore): the setup of the
\* dragging of a guide of the document
setupGuide ==
    /\ last = Idle
    /\ \E snapindicator \in BOOLEAN :
            /\ _item_to_ignore' = NULL
            /\ _items_to_ignore' = NULL
            /\ _desktop' = << [gridsEnabled |-> FALSE, namedview |-> Drawing] >>
            /\ _snapindicator' = snapindicator
            /\ _unselected_nodes' = NULL
            /\ _guide_to_ignore' = <<"g1">>
    /\ UNCHANGED <<snapprefs, last>>

GuideFreeSnap ==
    /\ last = Idle
    /\ _desktop # NULL
    /\ \E d \in GuideDrags :
          last' = Query("guideFreeSnap", d.p, NoConstraint, NoBatch,
                        guideFreeSnap(d.p, d.guideline.normal_to_line))
    /\ UNCHANGED <<snapprefs, session>>

GuideConstrainedSnap ==
    /\ last = Idle
    /\ _desktop # NULL
    /\ \E d \in GuideDrags :
          last' = Query("guideConstrainedSnap", d.p, guideConstraint(d.guideline),
                        NoBatch, guideConstrainedSnap(d.p, d.guideline))
    /\ UNCHANGED <<snapprefs, session>>

\* the offsets of a pasted copy
Offsets ==
    {Pt(0, 0), <<R(3), Q(1, 5)>>, Pt(12, 13), Pt(-4, 25)}

MultipleOfGridPitch ==
    /\ last = Idle
    /\ _desktop # NULL
    /\ \E t \in Offsets :
          last' = [op |-> "multipleOfGridPitch", t |-> t,
                   out |-> multipleOfGridPitch(t)]
    /\ UNCHANGED <<snapprefs, session>>

\* a batch: _snapTransformed on behalf of one of the six public operations
Batch(op, points, pointer, constrained, constraint, type, transformation, origin, dim, uniform) ==
    last' = Query(op, Pt(0, 0), constraint,
                  [points |-> points, pointer |-> pointer,
                   constrained |-> constrained, type |-> type,
                   transformation |-> transformation, origin |-> origin,
                   dim |-> dim, uniform |-> uniform],
                  _snapTransformed(points, pointer, constrained, constraint, type,
                                   transformation, origin, dim, uniform))

Pointers ==
    {Pt(0, 0), Pt(10, 2)}

freeSnapTranslation ==
    /\ last = Idle
    /\ _desktop # NULL
    /\ \E p \in PointSets, pointer \in Pointers, tr \in Translations :
          Batch("freeSnapTranslation", p, pointer, FALSE, NoConstraint,
                "TRANSLATION", tr, Pt(0, 0), X, FALSE)
    /\ UNCHANGED <<snapprefs, session>>

constrainedSnapTranslation ==
    /\ last = Idle
    /\ _desktop # NULL
    /\ \E p \in PointSets, tr \in Translations, d \in {Pt(1, 0), Pt(0, 1)} :
          Batch("constrainedSnapTranslation", p, Pt(0, 0), TRUE,
                ConstraintLine(Pt(0, 0), d, FALSE), "TRANSLATION", tr, Pt(0, 0),
                X, FALSE)
    /\ UNCHANGED <<snapprefs, session>>

freeSnapScale ==
    /\ last = Idle
    /\ _desktop # NULL
    /\ \E p \in PointSets, sc \in Scales, o \in Origins :
          Batch("freeSnapScale", p, Pt(0, 0), FALSE, NoConstraint, "SCALE", sc, o,
                X, FALSE)
    /\ UNCHANGED <<snapprefs, session>>

constrainedSnapScale ==
    /\ last = Idle
    /\ _desktop # NULL
    /\ \E p \in PointSets, sc \in Scales, o \in Origins :
          Batch("constrainedSnapScale", p, Pt(0, 0), TRUE, NoConstraint, "SCALE",
                sc, o, X, TRUE)
    /\ UNCHANGED <<snapprefs, session>>

constrainedSnapStretch ==
    /\ last = Idle
    /\ _desktop # NULL
    /\ \E p \in PointSets, s \in Stretches, d \in {X, Y}, u \in BOOLEAN :
          Batch("constrainedSnapStretch", p, Pt(0, 0), TRUE, NoConstraint,
                "STRETCH", <<s, s>>, Pt(0, 0), d, u)
    /\ UNCHANGED <<snapprefs, session>>

constrainedSnapSkew ==
    /\ last = Idle
    /\ _desktop # NULL
    /\ \E p \in PointSets, sk \in Skews, d \in {X, Y} :
          Batch("constrainedSnapSkew", p, Pt(0, 0), TRUE,
                ConstraintLine(Pt(0, 0), component_vectors(d), FALSE), "SKEW",
                <<sk, R(1)>>, Pt(0, 0), d, FALSE)
    /\ UNCHANGED <<snapprefs, session>>

\* the caller has read the result: nothing of a query outlives it
Return ==
    /\ last # Idle
    /\ last' = Idle
    /\ UNCHANGED <<snapprefs, session>>

Next ==
    \/ setup1
    \/ setup2
    \/ SetFlag
    \/ SetTolerance
    \/ FreeSnap
    \/ ConstrainedSnap
    \/ MultipleOfGridPitch
    \/ QueryBeforeSetup
    \/ setupGuide
    \/ GuideFreeSnap
    \/ GuideConstrainedSnap
    \/ freeSnapTranslation
    \/ constrainedSnapTranslation
    \/ freeSnapScale
    \/ constrainedSnapScale
    \/ constrainedSnapStretch
    \/ constrainedSnapSkew
    \/ Return

Spec ==
    Init /\ [][Next]_vars

\* the last step of a SCALE on its own: the best transformation the loop may
\* leave, each axis a recovered factor or still NR_HUGE
Factors ==
    {NR_HUGE, R(2), Q(21, 10), Q(19, 10)}

Fallback ==
    /\ last = Idle
    /\ \E x \in Factors, y \in Factors, sc \in Scales, u \in BOOLEAN :
          last' = [op |-> "scaleFallback", best_transformation |-> <<x, y>>,
                   transformation |-> sc, uniform |-> u,
                   out |-> scaleFallback(<<x, y>>, sc, u)]
    /\ UNCHANGED <<snapprefs, session>>

NextScale ==
    \/ setup1
    \/ setup2
    \/ SetFlag
    \/ SetTolerance
    \/ freeSnapScale
    \/ constrainedSnapScale
    \/ Fallback
    \/ Return

SpecScale ==
    Init /\ [][NextScale]_vars

\* The pasting of a copy on a desktop whose grids are not at the origin of the
\* document.
setupShifted ==
    /\ last = Idle
    /\ \E gridsEnabled \in BOOLEAN, snapindicator \in BOOLEAN :
            /\ _item_to_ignore' = NULL
            /\ _items_to_ignore' = NULL
            /\ _desktop' = << [gridsEnabled |-> gridsEnabled, namedview |-> Shifted] >>
            /\ _snapindicator' = snapindicator
            /\ _unselected_nodes' = NULL
            /\ _guide_to_ignore' = NULL
    /\ UNCHANGED <<snapprefs, last>>

\* _snapTransformed asked for a constrained scale that is not uniform, which no
\* public operation asks for: constrainedSnapScale always passes uniform = true
nonUniformConstrainedScale ==
    /\ last = Idle
    /\ _desktop # NULL
    /\ \E p \in PointSets, sc \in Scales, o \in Origins :
          Batch("nonUniformConstrainedScale", p, Pt(0, 0), TRUE,
                ConstraintLine(Pt(0, 0), Pt(1, 0), FALSE), "SCALE", sc, o, X, FALSE)
    /\ UNCHANGED <<snapprefs, session>>

NextNonUniform ==
    \/ setup1
    \/ setup2
    \/ SetFlag
    \/ SetTolerance
    \/ nonUniformConstrainedScale
    \/ Return

SpecNonUniform ==
    Init /\ [][NextNonUniform]_vars

NextPitch ==
    \/ setup1
    \/ setupShifted
    \/ SetFlag
    \/ SetTolerance
    \/ MultipleOfGridPitch
    \/ Return

SpecPitch ==
    Init /\ [][NextPitch]_vars

\* findBestSnap on its own, given the candidates the snappers may have gathered
\* for the point (21, 49): for each kind of candidate no candidate, a candidate
\* out of its tolerance, one within it, or two that cross. Distances and
\* tolerances are squares.
CandidatePoints ==
    {<<>>,
     << SnappedPoint(Pt(31, 49), "SNAPSOURCE_NODE", "SNAPTARGET_NODE", R(100), R(25), FALSE, FALSE) >>,
     << SnappedPoint(Pt(22, 50), "SNAPSOURCE_NODE", "SNAPTARGET_NODE", R(2), R(25), FALSE, FALSE) >>}

CandidateCurves ==
    {<<>>,
     << SnappedLine(Pt(23, 49), "SNAPSOURCE_NODE", "SNAPTARGET_PATH", R(4), R(25), FALSE, X, R(23)) >>,
     << SnappedLine(Pt(23, 49), "SNAPSOURCE_NODE", "SNAPTARGET_PATH", R(4), R(25), FALSE, X, R(23)),
        SnappedLine(Pt(21, 47), "SNAPSOURCE_NODE", "SNAPTARGET_PATH", R(4), R(25), FALSE, Y, R(47)) >>}

CandidateGridLines ==
    {<<>>,
     << SnappedLine(Pt(30, 49), "SNAPSOURCE_NODE", "SNAPTARGET_GRID", R(81), R(25), FALSE, X, R(30)) >>,
     << SnappedLine(Pt(20, 49), "SNAPSOURCE_NODE", "SNAPTARGET_GRID", R(1), R(25), FALSE, X, R(20)) >>,
     << SnappedLine(Pt(20, 49), "SNAPSOURCE_NODE", "SNAPTARGET_GRID", R(1), R(25), FALSE, X, R(20)),
        SnappedLine(Pt(21, 50), "SNAPSOURCE_NODE", "SNAPTARGET_GRID", R(1), R(25), FALSE, Y, R(50)) >>}

CandidateGuideLines ==
    {<<>>,
     << SnappedLine(Pt(21, 48), "SNAPSOURCE_NODE", "SNAPTARGET_GUIDE", R(1), R(25), FALSE, Y, R(48)) >>,
     << SnappedLine(Pt(21, 39), "SNAPSOURCE_NODE", "SNAPTARGET_GUIDE", R(100), R(25), TRUE, Y, R(39)) >>,
     << SnappedLine(Pt(22, 49), "SNAPSOURCE_NODE", "SNAPTARGET_GUIDE", R(1), R(25), FALSE, X, R(22)),
        SnappedLine(Pt(21, 48), "SNAPSOURCE_NODE", "SNAPTARGET_GUIDE", R(1), R(25), FALSE, Y, R(48)) >>}

FindBestSnap ==
    /\ last = Idle
    /\ _desktop # NULL
    /\ \E points \in CandidatePoints, curves \in CandidateCurves,
          grid_lines \in CandidateGridLines, guide_lines \in CandidateGuideLines,
          constrained \in BOOLEAN :
          last' = [op |-> "findBestSnap", p |-> Pt(21, 49),
                   sc |-> [points |-> points, curves |-> curves,
                           grid_lines |-> grid_lines, guide_lines |-> guide_lines],
                   constrained |-> constrained,
                   out |-> findBestSnap(Pt(21, 49), "SNAPSOURCE_NODE",
                                        [points |-> points, curves |-> curves,
                                         grid_lines |-> grid_lines,
                                         guide_lines |-> guide_lines],
                                        constrained)]
    /\ UNCHANGED <<snapprefs, session>>

NextBest ==
    \/ setup1
    \/ SetFlag
    \/ SetTolerance
    \/ FindBestSnap
    \/ ConstrainedSnap
    \/ Return

SpecBest ==
    Init /\ [][NextBest]_vars

\* A free scale that mirrors: the origin lies between a point and a guide, and
\* the proposed factor of -1 on X takes the point to the far side of the
\* origin, within tolerance of the mirror image of the guide.
freeSnapScaleMirrored ==
    /\ last = Idle
    /\ _desktop # NULL
    /\ \E p \in {<<Node(20, 0)>>, <<Node(20, 0), Node(21, 1)>>},
          sc \in {Pt(-1, 1), Pt(-1, 2)} :
          Batch("freeSnapScale", p, Pt(0, 0), FALSE, NoConstraint, "SCALE", sc,
                Pt(19, 0), X, FALSE)
    /\ UNCHANGED <<snapprefs, session>>

\* A free scale of two points that lie on different axes through the origin:
\* the first can only give the factor of Y, the second only that of X.
freeSnapScaleTwoAxes ==
    /\ last = Idle
    /\ _desktop # NULL
    /\ \E sc \in Scales :
          Batch("freeSnapScale", <<Node(0, 10), Node(9, 0)>>, Pt(0, 0), FALSE,
                NoConstraint, "SCALE", sc, Pt(0, 0), X, FALSE)
    /\ UNCHANGED <<snapprefs, session>>

NextMirror ==
    \/ setup1
    \/ SetFlag
    \/ SetTolerance
    \/ freeSnapScale
    \/ constrainedSnapScale
    \/ freeSnapScaleMirrored
    \/ freeSnapScaleTwoAxes
    \/ Return

SpecMirror ==
    Init /\ [][NextMirror]_vars

----------------------------------------------------------------------------
(* Properties of the queries.  A state with last # Idle is the moment a   *)
(* query has returned: last holds its arguments and everything it did.    *)

Primitives ==
    {"freeSnap", "constrainedSnap"}

TranslationBatches ==
    {"freeSnapTranslation", "constrainedSnapTranslation"}

Batches ==
    TranslationBatches \cup {"freeSnapScale", "constrainedSnapScale",
                             "constrainedSnapStretch", "constrainedSnapSkew"}

\* the candidates the snappers collected for the primitive that has returned
collected ==
    IF last.op = "freeSnap"
    THEN fanOutFree(1, EmptySC, last.p, "SNAPSOURCE_NODE")
    ELSE fanOutConstrained(1, EmptySC, projection(last.constraint, last.p),
                           "SNAPSOURCE_NODE", last.constraint)

\* ... and the list findBestSnap made of them, those within tolerance
offered ==
    LET list == sp_list(last.p, "SNAPSOURCE_NODE", collected,
                        last.op = "constrainedSnap")
    IN  {list[k] : k \in {i \in 1..Len(list) :
                            Le(list[i].distance, list[i].tolerance)}}

\* C1: when someSnapperMightSnap() is false (snapping disabled, snapping
\* postponed, or no snapper that might snap), freeSnap, constrainedSnap and
\* every batch call no snapper and return a result that is not snapped, with
\* target SNAPTARGET_UNDEFINED and distance NR_HUGE
C1_NothingMightSnap ==
    (last.op \in Primitives \cup Batches /\ ~someSnapperMightSnap) =>
        /\ last.out.calls = <<>>
        /\ ~getSnapped(last.out.ret)
        /\ last.out.ret.target = "SNAPTARGET_UNDEFINED"
        /\ last.out.ret.distance = NR_HUGE

\* a batch over two points on a view where snapping is enabled, not postponed,
\* and no snapper might snap
C1_Witness ==
    /\ last.op \in Batches
    /\ Len(last.batch.points) = 2
    /\ snapprefs.snap_enabled_globally
    /\ ~snapprefs.snap_postponed_globally
    /\ ~someSnapperMightSnap
    /\ last.out.calls = <<>>
    /\ ~getSnapped(last.out.ret)

WithinItsTolerance(s) ==
    \/ s.distance = NR_HUGE
    \/ IsFin(s.distance) /\ Le(s.distance, s.tolerance)

\* C2 (as stated): the distance of every query's result, the scale, stretch
\* and skew batches included, is NR_HUGE or at most the tolerance of the
\* winning candidate
C2_AsStated ==
    last.op \in Primitives \cup Batches => WithinItsTolerance(last.out.ret)

\* C2: the distance returned by freeSnap, constrainedSnap and the translation
\* batches is NR_HUGE or finite and at most the tolerance of the winning
\* candidate; the distance returned by a scale, stretch or skew batch is
\* NR_HUGE or the finite difference between the recovered and the proposed
\* factor, which the tolerance does not bound
C2_DistanceWithinTolerance ==
    /\ last.op \in Primitives \cup TranslationBatches =>
          WithinItsTolerance(last.out.ret)
    /\ last.op \in Batches \ TranslationBatches =>
          \/ last.out.ret.distance = NR_HUGE
          \/ IsFin(last.out.ret.distance)

\* a constrained translation that snapped at a distance above zero
C2_Witness ==
    /\ last.op = "constrainedSnapTranslation"
    /\ getSnapped(last.out.ret)
    /\ Lt(R(0), last.out.ret.distance)
    /\ Le(last.out.ret.distance, last.out.ret.tolerance)

\* the line a constrained query was confined to
OnItsConstraint(q) ==
    OnLine(last.constraint,
           IF last.constraint.has_point THEN last.constraint.point ELSE last.p, q)

\* C3: a snapped result of constrainedSnap lies on the constraint line,
\* whatever the preferences, the search for curve intersections enabled
\* included, the snappers appending only candidates on that line
C3_OnConstraintLine ==
    (last.op = "constrainedSnap" /\ getSnapped(last.out.ret)) =>
        OnItsConstraint(last.out.ret.point)

\* a constrained snap to a path, away from the projection of p, while curve
\* intersections are searched for
C3_Witness ==
    /\ last.op = "constrainedSnap"
    /\ getSnapped(last.out.ret)
    /\ snapprefs.intersectionCS
    /\ last.out.ret.target = "SNAPTARGET_PATH"
    /\ last.out.ret.point # projection(last.constraint, last.p)

\* C4 (as stated): findBestSnap runs when some snapper might snap; of two
\* candidates within tolerance at the same distance the intersection is returned wherever it stands in the list, and of two of the
\* same kind the one with the smaller second distance
C4_AsStated ==
    (last.op \in Primitives /\ someSnapperMightSnap) =>
        \A c \in offered :
            Eq(c.distance, last.out.ret.distance) =>
                /\ c.at_intersection => last.out.ret.at_intersection
                /\ c.at_intersection = last.out.ret.at_intersection =>
                      Le(last.out.ret.second_distance, c.second_distance)

\* C4: a candidate flagged always-snap is returned before any that is not;
\* among candidates within tolerance with the result's always-snap flag and at
\* its distance, the intersection is returned wherever it stands in the list,
\* and of two of the same kind the one with the smaller second distance
C4_IntersectionPreferred ==
    (last.op \in Primitives /\ someSnapperMightSnap) =>
        \A c \in offered :
            /\ c.always_snap => last.out.ret.always_snap
            /\ ( /\ c.always_snap = last.out.ret.always_snap
                 /\ Eq(c.distance, last.out.ret.distance) ) =>
                    /\ c.at_intersection => last.out.ret.at_intersection
                    /\ c.at_intersection = last.out.ret.at_intersection =>
                          Le(last.out.ret.second_distance, c.second_distance)

\* an intersection returned although a candidate that is no intersection stands
\* before it in the list at the same distance
C4_Witness ==
    /\ last.op = "freeSnap"
    /\ someSnapperMightSnap
    /\ last.out.ret.at_intersection
    /\ \E c \in offered :
          /\ ~c.at_intersection
          /\ c.always_snap = last.out.ret.always_snap
          /\ Eq(c.distance, last.out.ret.distance)

\* the query point lies exactly on a point target, a grid line or a guide line
OnTarget ==
    \E list \in {collected.points, collected.grid_lines, collected.guide_lines} :
        \E k \in 1..Len(list) : list[k].distance = R(0)

\* no crossing and no always-snap target within tolerance
Unrivalled ==
    \A c \in offered : ~c.at_intersection /\ ~c.always_snap

\* C5 (as stated): a free snap of a point that lies exactly on a target returns
\* that point, snapped and at distance 0, whatever else is within tolerance
C5_AsStated ==
    (last.op = "freeSnap" /\ someSnapperMightSnap /\ OnTarget) =>
        /\ getSnapped(last.out.ret)
        /\ last.out.ret.point = last.p
        /\ last.out.ret.distance = R(0)

\* C5: a free snap of a point that lies exactly on a point target, a grid line
\* or a guide line returns a snapped result; it returns that point at distance
\* 0 when no crossing and no always-snap target is within tolerance
C5_Idempotence ==
    (last.op = "freeSnap" /\ someSnapperMightSnap /\ OnTarget) =>
        /\ getSnapped(last.out.ret)
        /\ Unrivalled =>
              /\ last.out.ret.point = last.p
              /\ last.out.ret.distance = R(0)

\* a point on a target with another target, but no crossing, within tolerance
C5_Witness ==
    /\ last.op = "freeSnap"
    /\ someSnapperMightSnap
    /\ OnTarget
    /\ Unrivalled
    /\ Cardinality(offered) > 1
    /\ last.out.ret.point = last.p

recovered ==
    scaleResult(PSub(last.out.snapped[1].point, last.batch.origin),
                PSub(last.batch.points[1].first, last.batch.origin),
                last.batch.transformation)

ScenarioA ==
    /\ last.op = "freeSnap"
    /\ last.p = Pt(3, 4)
    /\ snapprefs.tolerance = R(5)
    /\ someSnapperMightSnap
    /\ getGridSnappers # <<>>

\* C8 (as stated): scenario A returns (0, 0) at the Euclidean distance 5
C8_AsStated ==
    ScenarioA =>
        /\ getSnapped(last.out.ret)
        /\ last.out.ret.point = Pt(0, 0)
        /\ last.out.ret.distance = Sq(R(5))

\* C8: scenario A returns the grid intersection (0, 0), snapped; its distance
\* is 3, the distance to the nearer of the two lines, and its second distance
\* 4, the distance to the other
C8_GridIntersection ==
    ScenarioA =>
        /\ getSnapped(last.out.ret)
        /\ last.out.ret.target = "SNAPTARGET_GRID_INTERSECTION"
        /\ last.out.ret.point = Pt(0, 0)
        /\ last.out.ret.distance = Sq(R(3))
        /\ last.out.ret.second_distance = Sq(R(4))

C8_Witness ==
    /\ ScenarioA
    /\ last.out.ret.target = "SNAPTARGET_GRID_INTERSECTION"
    /\ last.out.ret.point = Pt(0, 0)

\* a free snap with a horizontal and a vertical guide both within tolerance
TwoGuides ==
    /\ last.op = "freeSnap"
    /\ someSnapperMightSnap
    /\ \E i, j \in 1..Len(collected.guide_lines) :
          /\ collected.guide_lines[i].dim = X
          /\ collected.guide_lines[j].dim = Y

\* C9 (as stated): with two guides within tolerance the result is their
\* crossing, of kind guide intersection
C9_AsStated ==
    TwoGuides =>
        /\ last.out.ret.target = "SNAPTARGET_GUIDE_INTERSECTION"
        /\ last.out.ret.at_intersection

\* C9: with a horizontal and a vertical guide within tolerance and nothing
\* else collected, the result is their crossing, of kind guide intersection;
\* from (21, 49), with the guides y = 50 and x = 20, it is (20, 50)
C9_GuideIntersection ==
    ( /\ TwoGuides
      /\ collected.points = <<>>
      /\ collected.curves = <<>>
      /\ collected.grid_lines = <<>> ) =>
        /\ getSnapped(last.out.ret)
        /\ last.out.ret.target = "SNAPTARGET_GUIDE_INTERSECTION"
        /\ last.out.ret.at_intersection
        /\ \E i, j \in 1..Len(collected.guide_lines) :
              last.out.ret.point = intersect(collected.guide_lines[i],
                                             collected.guide_lines[j],
                                             "SNAPTARGET_GUIDE_INTERSECTION").point
        /\ last.p = Pt(21, 49) => last.out.ret.point = Pt(20, 50)

C9_Witness ==
    /\ TwoGuides
    /\ last.p = Pt(21, 49)
    /\ last.out.ret.target = "SNAPTARGET_GUIDE_INTERSECTION"
    /\ last.out.ret.point = Pt(20, 50)

\* the translation scenario: points (0, 0) and (10, 0), proposed translation
\* (3, 0.2), the grid line y = 0, tolerance 1
ScenarioTranslation ==
    /\ last.op = "freeSnapTranslation"
    /\ last.batch.points = <<Node(0, 0), Node(10, 0)>>
    /\ last.batch.transformation = <<R(3), Q(1, 5)>>
    /\ snapprefs.tolerance = R(1)
    /\ someSnapperMightSnap
    /\ getGridSnappers # <<>>

\* C10: a translation batch that snapped returns, for one of its points, the
\* displacement from the original point to where the transformed point
\* snapped, and that point's snap distance; the translation scenario returns
\* the translation (3, 0) at the distance 0.2
C10_Translation ==
    /\ (last.op \in TranslationBatches /\ getSnapped(last.out.ret)) =>
          \E k \in 1..Len(last.batch.points) :
              /\ getSnapped(last.out.snapped[k])
              /\ last.out.ret.point = last.out.snapped[k].point
              /\ last.out.ret.transformation =
                    PSub(last.out.snapped[k].point, last.batch.points[k].first)
              /\ last.out.ret.distance = last.out.snapped[k].distance
    /\ ScenarioTranslation =>
          /\ getSnapped(last.out.ret)
          /\ last.out.ret.transformation = Pt(3, 0)
          /\ last.out.ret.distance = Sq(Q(1, 5))

C10_Witness ==
    /\ ScenarioTranslation
    /\ last.out.ret.transformation = Pt(3, 0)
    /\ last.out.ret.point \in {Pt(3, 0), Pt(13, 0)}

\* the grid lines the snapper of grid k finds within its tolerance of the
\* offset t, moved by the origin of the grid
gridLinesFound(k, t) ==
    SnapperFreeSnap([kind |-> "grid", grid |-> k], EmptySC, PAdd(t, Grids[k].origin),
                    "SNAPSOURCE_UNDEFINED", <<>>).grid_lines

\* C11: multipleOfGridPitch(t) returns t unchanged when snapping is disabled
\* globally (and then calls no grid snapper), when the grids of the desktop are
\* disabled, and when no grid snapper finds a grid line within its tolerance
C11_OffsetUnchanged ==
    last.op = "multipleOfGridPitch" =>
        /\ ~snapprefs.snap_enabled_globally =>
                last.out.offset = last.t /\ last.out.calls = <<>>
        /\ ~_desktop[1].gridsEnabled => last.out.offset = last.t
        /\ (\A k \in 1..Len(Grids) : gridLinesFound(k, last.t) = <<>>) =>
                last.out.offset = last.t

\* a grid snapper was asked and found nothing within its tolerance
C11_Witness ==
    /\ last.op = "multipleOfGridPitch"
    /\ snapprefs.snap_enabled_globally
    /\ _desktop[1].gridsEnabled
    /\ last.out.calls # <<>>
    /\ \A k \in 1..Len(Grids) : gridLinesFound(k, last.t) = <<>>
    /\ last.out.offset = last.t

\* v is an integer multiple of the pitch, and no other multiple is nearer to t
NearestMultiple(v, t, pitch) ==
    /\ IsFin(v)
    /\ Div(v, pitch)[2] = 1
    /\ Le(Sq(Sub(v, t)), Sq(Div(pitch, R(2))))

\* the grid whose snap multipleOfGridPitch returned
winningGrid ==
    Grids[last.out.grid]

\* C12 (as stated): whenever multipleOfGridPitch(t) snaps, the offset it
\* returns is in both components the multiple of the pitch of the winning grid
\* nearest to t, wherever the origin of the grid is; a zero offset stays zero
C12_AsStated ==
    (last.op = "multipleOfGridPitch" /\ last.out.success) =>
        /\ \A dim \in {X, Y} :
              NearestMultiple(last.out.offset[dim], last.t[dim], winningGrid.pitch[dim])
        /\ last.t = Pt(0, 0) => last.out.offset = Pt(0, 0)

\* C12: whenever multipleOfGridPitch(t) snaps, the offset it returns is, in
\* each component in which the winning grid has a line within the tolerance,
\* the multiple of the pitch of that grid nearest to t, wherever the origin of
\* the grid is, and in the other component that of t; a zero offset stays zero
C12_NearestMultiple ==
    (last.op = "multipleOfGridPitch" /\ last.out.success) =>
        /\ \A dim \in {X, Y} :
              IF \E k \in 1..Len(gridLinesFound(last.out.grid, last.t)) :
                    gridLinesFound(last.out.grid, last.t)[k].dim = dim
              THEN NearestMultiple(last.out.offset[dim], last.t[dim],
                                   winningGrid.pitch[dim])
              ELSE last.out.offset[dim] = last.t[dim]
        /\ last.t = Pt(0, 0) => last.out.offset = Pt(0, 0)

\* an offset was moved in both components to a multiple of the pitch of a grid
\* that is not at the origin of the document
C12_Witness ==
    /\ last.op = "multipleOfGridPitch"
    /\ last.out.success
    /\ winningGrid.origin # Pt(0, 0)
    /\ last.out.offset[X] # last.t[X]
    /\ last.out.offset[Y] # last.t[Y]
    /\ \A dim \in {X, Y} :
          NearestMultiple(last.out.offset[dim], last.t[dim], winningGrid.pitch[dim])

\* the list every snapper of a freeSnap or constrainedSnap was handed is the
\* one-element list holding the single item when one is set, and otherwise the
\* list of the last setup (no list when that setup was given none)
HandedTheIgnored ==
    last.op \in {"freeSnap", "constrainedSnap"} =>
        \A k \in 1..Len(last.out.calls) :
            IF _item_to_ignore # NULL
            THEN Ignored(last.out.calls[k].items_to_ignore) = <<_item_to_ignore[1]>>
            ELSE last.out.calls[k].items_to_ignore = _items_to_ignore

\* C13 (as stated): after any calls of the two setup overloads exactly one of
\* the single ignored item and the list of ignored items is active, and the
\* snappers of freeSnap and constrainedSnap are handed the one-element list
\* of the single item when it is set and otherwise the list of the last setup
C13_AsStated ==
    _desktop # NULL =>
        /\ (_item_to_ignore # NULL) # (_items_to_ignore # NULL)
        /\ HandedTheIgnored

\* C13: after any calls of the two setup overloads at most one of the single
\* ignored item and the list of ignored items is active (neither after a
\* setup with no item), and the snappers of freeSnap and constrainedSnap are
\* handed the one-element list of the single item when it is set and
\* otherwise the list of the last setup, which is no list when that setup was
\* the single-item overload
C13_AtMostOneIgnored ==
    _desktop # NULL =>
        /\ ~(_item_to_ignore # NULL /\ _items_to_ignore # NULL)
        /\ HandedTheIgnored

\* the snappers were handed the list of a setup that followed the setup of a
\* single item
C13_Witness ==
    /\ last.op \in {"freeSnap", "constrainedSnap"}
    /\ last.out.calls # <<>>
    /\ _item_to_ignore = NULL
    /\ _items_to_ignore # NULL
    /\ \A k \in 1..Len(last.out.calls) :
            Ignored(last.out.calls[k].items_to_ignore) = <<"item1", "item2">>

\* the queries: everything but a setup
Queries ==
    Primitives \cup Batches \cup {"multipleOfGridPitch", "guideFreeSnap", "guideConstrainedSnap"}

\* what a query did agrees with the fields of the session: the snappers of a
\* primitive or a batch were handed the ignored items and the unselected nodes
\* of the session, a grid snapper was asked only on a desktop that shows its
\* grids, the snap indicator was touched only when the session has it, and no
\* result is a snap to the guide that the session ignores
ObservesTheSession ==
    last.op \in Queries =>
        /\ last.op \in Primitives \cup Batches =>
                \A k \in 1..Len(last.out.calls) :
                    /\ last.out.calls[k].items_to_ignore = items_to_ignore
                    /\ last.out.calls[k].unselected_nodes = _unselected_nodes
        /\ \A k \in 1..Len(last.out.calls) :
                last.out.calls[k].snapper.kind = "grid" => _desktop[1].gridsEnabled
        /\ last.out.indicator # <<>> => _snapindicator
        /\ (/\ last.op \in Primitives \cup {"guideFreeSnap", "guideConstrainedSnap"}
            /\ getSnapped(last.out.ret)
            /\ last.out.ret.target = "SNAPTARGET_GUIDE"
            /\ _guide_to_ignore = <<"g1">>) => last.out.ret.point[X] = R(20)

C15_AsStated ==
    last.op = "beforeSetup" =>
        /\ ~last.out.crashed
        /\ last.out.warnings # <<>>
        /\ ~getSnapped(last.out.ret)
        /\ last.out.calls = <<>>

\* C16 (as stated): a constrained scale that is not uniform is logged and not
\* attempted: no snapper's constrainedSnap is called, and the result is not
\* snapped and carries the proposed scale
C16_AsStated ==
    (/\ last.op = "nonUniformConstrainedScale"
     /\ last.batch.points # <<>>
     /\ someSnapperMightSnap) =>
        /\ last.out.warnings # <<>>
        /\ \A k \in 1..Len(last.out.calls) :
                last.out.calls[k].method # "constrainedSnap"
        /\ ~getSnapped(last.out.ret)
        /\ last.out.ret.transformation = last.batch.transformation

\* the batches that recover a factor by a division
FactorBatches ==
    {"freeSnapScale", "constrainedSnapScale", "constrainedSnapStretch", "constrainedSnapSkew"}

\* C17 (as stated): a snapped point whose denominator is (nearly) zero never
\* becomes the best transformation of a scale, a stretch or a skew: the
\* transformation returned has no component that is infinite, NaN or NR_HUGE,
\* and no skew factor was recovered by a division by zero
C17_AsStated ==
    last.op \in FactorBatches =>
        /\ IsFin(last.out.ret.transformation[X])
        /\ IsFin(last.out.ret.transformation[Y])
        /\ last.op = "constrainedSnapSkew" =>
                \A k \in 1..Len(last.out.snapped) :
                    getSnapped(last.out.snapped[k]) =>
                        IsFin(skewResult(last.out.snapped[k].point,
                                         last.batch.points[k],
                                         last.batch.transformation,
                                         last.batch.origin, last.batch.dim)[1])

\* the foot of the point of a constrained query on its constraint line
projected ==
    projection(last.constraint, last.p)

\* C18 (as stated): constrainedSnap hands every snapper the projection of p,
\* and the distance of the result it returns is that between the returned
\* point and p itself, not its projection
C18_AsStated ==
    last.op = "constrainedSnap" =>
        /\ \A k \in 1..Len(last.out.calls) : last.out.calls[k].p = projected
        /\ getSnapped(last.out.ret) =>
                last.out.ret.distance = L2sq(PSub(last.out.ret.point, last.p))

\* C18: constrainedSnap hands every snapper the projection of p, and the
\* distance of the result it returns is that between the returned point and
\* that projection
C18_DistanceFromProjection ==
    last.op = "constrainedSnap" =>
        /\ \A k \in 1..Len(last.out.calls) : last.out.calls[k].p = projected
        /\ getSnapped(last.out.ret) =>
                last.out.ret.distance = L2sq(PSub(last.out.ret.point, projected))

\* a point off its constraint line snapped to a target away from its projection
C18_Witness ==
    /\ last.op = "constrainedSnap"
    /\ last.p # projected
    /\ getSnapped(last.out.ret)
    /\ last.out.ret.point # projected
    /\ last.out.ret.distance = L2sq(PSub(last.out.ret.point, projected))

\* C19 (as stated): a batch in which no point snaps, the batch left early
\* because no snapper might snap and the batch of no points included, returns
\* the transformation that was proposed, not snapped
C19_AsStated ==
    (/\ last.op \in Batches
     /\ \A k \in 1..Len(last.out.snapped) : ~getSnapped(last.out.snapped[k])) =>
        /\ ~getSnapped(last.out.ret)
        /\ last.out.ret.transformation = last.batch.transformation

\* C20: whenever guideConstrainedSnap overwrites p, the new p lies on the
\* guide that is dragged (the line through point_on_line along
\* rot90(normal_to_line)), the snappers appending only candidates on that
\* line, also when two other guides cross within the tolerance of p
C20_OnTheGuide ==
    (last.op = "guideConstrainedSnap" /\ getSnapped(last.out.ret)) =>
        /\ last.out.p = last.out.ret.point
        /\ OnItsConstraint(last.out.p)

\* a point of a diagonal guide, within the tolerance of the crossing of the
\* two guides of the document, was moved along its guide to one of them
C20_Witness ==
    /\ last.op = "guideConstrainedSnap"
    /\ last.constraint.direction = rot90(Pt(1, -1))
    /\ Len(GuidesButIgnored(1)) = 2
    /\ Le(L2sq(PSub(Pt(20, 50), last.p)), Sq(snapprefs.tolerance))
    /\ getSnapped(last.out.ret)
    /\ last.out.ret.target = "SNAPTARGET_GUIDE"
    /\ last.out.p # last.p

\* the snappers the primitive that has returned has called, in the order of
\* its calls
called ==
    [k \in 1..Len(last.out.calls) |-> last.out.calls[k].snapper]

\* C21 (as stated): a primitive calls exactly the snappers that report that
\* they might snap; a snapper that reports false is never called
C21_AsStated ==
    last.op \in Primitives =>
        /\ \A k \in 1..Len(called) : ThisSnapperMightSnap(called[k])
        /\ \A k \in 1..Len(getSnappers) :
              ThisSnapperMightSnap(getSnappers[k]) =>
                  \E j \in 1..Len(called) : called[j] = getSnappers[k]

\* C21: a primitive that gets past someSnapperMightSnap() calls every snapper
\* of getSnappers() once, in the order of that list and with the method of
\* the primitive, whether the snapper reports that it might snap or not
C21_EverySnapperCalled ==
    (last.op \in Primitives /\ someSnapperMightSnap) =>
        /\ called = getSnappers
        /\ \A k \in 1..Len(last.out.calls) : last.out.calls[k].method = last.op

\* a primitive has called a snapper that reports false next to one that
\* reports true
C21_Witness ==
    /\ last.op \in Primitives
    /\ \E k \in 1..Len(called) : ~ThisSnapperMightSnap(called[k])
    /\ \E k \in 1..Len(called) : ThisSnapperMightSnap(called[k])

\* the list findBestSnap made of the candidates it was given
listed ==
    sp_list(last.p, "SNAPSOURCE_NODE", last.sc, last.constrained)

Crossing ==
    {"SNAPTARGET_GRID_INTERSECTION", "SNAPTARGET_GUIDE_INTERSECTION",
     "SNAPTARGET_GRID_GUIDE_INTERSECTION"}

\* C22: findBestSnap looks for the crossings of grid lines and guides only
\* when the query is not constrained: a constrained findBestSnap, whatever
\* candidates it is given, and every constrainedSnap, returns no grid
\* intersection, guide intersection or grid-guide intersection; a findBestSnap
\* that is not constrained lists a grid-guide intersection only when the
\* preference for it is set
C22_NoCrossingWhenConstrained ==
    /\ (last.op = "findBestSnap" /\ last.constrained) =>
          /\ last.out.ret.target \notin Crossing
          /\ \A k \in 1..Len(listed) : listed[k].target \notin Crossing
    /\ last.op = "constrainedSnap" => last.out.ret.target \notin Crossing
    /\ (last.op = "findBestSnap" /\ ~last.constrained) =>
          ((\E k \in 1..Len(listed) :
                listed[k].target = "SNAPTARGET_GRID_GUIDE_INTERSECTION")
           => snapprefs.intersectionGG)

\* a constrained findBestSnap that was given two grid lines that cross and two
\* guides that cross, all within tolerance, and has snapped
C22_Witness ==
    /\ last.op = "findBestSnap"
    /\ last.constrained
    /\ Len(last.sc.grid_lines) = 2
    /\ Len(last.sc.guide_lines) = 2
    /\ getSnapped(last.out.ret)

\* C23: a findBestSnap makes one call on the snap indicator when _snapindicator
\* is set, set_new_snaptarget when its result is snapped and remove_snaptarget
\* when it is not, and no call when _snapindicator is clear; it changes
\* neither the session nor the preferences
C23_OneIndicatorCall ==
    /\ [](last.op = "findBestSnap" =>
            /\ _snapindicator =>
                  last.out.indicator = IF getSnapped(last.out.ret)
                                       THEN <<"set_new_snaptarget">>
                                       ELSE <<"remove_snaptarget">>
            /\ ~_snapindicator => last.out.indicator = <<>>)
    /\ [][last'.op = "findBestSnap" =>
            session' = session /\ snapprefs' = snapprefs]_vars

\* a findBestSnap with the indicator asked for that found every candidate out
\* of its tolerance and has cleared the indicator
C23_Witness ==
    /\ last.op = "findBestSnap"
    /\ _snapindicator
    /\ last.sc.points # <<>>
    /\ ~getSnapped(last.out.ret)
    /\ last.out.indicator = <<"remove_snaptarget">>

\* the calls made for point k of the batch that has returned: those of one
\* primitive, one call per snapper of getSnappers()
callsFor(k) ==
    [j \in 1..Len(getSnappers) |-> last.out.calls[(k - 1) * Len(getSnappers) + j]]

\* point k of the batch where the proposed transformation takes it
transformedPoint(k) ==
    _transformPoint(last.batch.points[k], last.batch.type, last.batch.transformation,
                    last.batch.origin, last.batch.dim, last.batch.uniform)

\* the constraint line of point k of a constrained batch as C24 states it
statedConstraint(k) ==
    CASE last.batch.type \in {"SCALE", "STRETCH"} /\ last.batch.uniform ->
            [point |-> last.batch.origin,
             direction |-> PSub(last.batch.points[k].first, last.batch.origin),
             has_point |-> TRUE]
      [] last.batch.type = "STRETCH" /\ ~last.batch.uniform ->
            [point |-> last.batch.points[k].first,
             direction |-> component_vectors(last.batch.dim), has_point |-> TRUE]
      [] last.batch.type = "TRANSLATION" ->
            [point |-> last.batch.points[k].first,
             direction |-> last.constraint.direction, has_point |-> TRUE]
      [] last.batch.type = "SKEW" ->
            last.constraint

\* C24: every point of a constrained batch is snapped with constrainedSnap, at
\* its transformed position, along the line through the origin and its
\* original position (uniform scale or stretch), the line through its original
\* position along the stretch axis (stretch that is not uniform), the caller's
\* line moved to its original position (translation) or the caller's line as
\* it is (skew): the snappers are given that line and the projection of the
\* transformed point on it
C24_DedicatedConstraint ==
    (/\ last.op \in {"constrainedSnapTranslation", "constrainedSnapScale",
                     "constrainedSnapStretch", "constrainedSnapSkew"}
     /\ someSnapperMightSnap) =>
        /\ Len(last.out.calls) = Len(last.batch.points) * Len(getSnappers)
        /\ \A k \in 1..Len(last.batch.points) : \A j \in 1..Len(getSnappers) :
              /\ callsFor(k)[j].method = "constrainedSnap"
              /\ callsFor(k)[j].constraint = statedConstraint(k)
              /\ callsFor(k)[j].p = projection(statedConstraint(k), transformedPoint(k))

\* a constrained translation of two points, neither on the caller's line, by
\* an offset that is not along that line
C24_Witness ==
    /\ last.op = "constrainedSnapTranslation"
    /\ Len(last.batch.points) = 2
    /\ last.out.calls # <<>>
    /\ \A k \in 1..2 :
          /\ callsFor(k)[1].constraint # last.constraint
          /\ callsFor(k)[1].p # transformedPoint(k)
          /\ callsFor(k)[1].p # last.batch.points[k].first

\* the offset of point k of the batch from the origin of the transformation
offsetOf(k) ==
    PSub(last.batch.points[k].first, last.batch.origin)

\* point k is aligned with the origin on one axis and not on the other
alignedOnOneAxis(k) ==
    Negligible(offsetOf(k)[X]) # Negligible(offsetOf(k)[Y])

\* C25: in a free scale a point whose offset from the origin is below 1e-6 on
\* one axis and not on the other is snapped with constrainedSnap along the
\* line through the origin on the other axis, the one it can move on; every
\* other point of a free scale, a point at the origin included, and every
\* point of a free translation is snapped with freeSnap at its transformed
\* position
C25_AlignedPoints ==
    (last.op \in {"freeSnapScale", "freeSnapTranslation"} /\ someSnapperMightSnap) =>
        /\ Len(last.out.calls) = Len(last.batch.points) * Len(getSnappers)
        /\ \A k \in 1..Len(last.batch.points) : \A j \in 1..Len(getSnappers) :
              IF last.op = "freeSnapScale" /\ alignedOnOneAxis(k)
              THEN /\ callsFor(k)[j].method = "constrainedSnap"
                   /\ callsFor(k)[j].constraint =
                        [point |-> last.batch.origin,
                         direction |-> IF Negligible(offsetOf(k)[X])
                                       THEN Pt(0, 1) ELSE Pt(1, 0),
                         has_point |-> TRUE]
                   /\ callsFor(k)[j].p =
                        projection(callsFor(k)[j].constraint, transformedPoint(k))
              ELSE /\ callsFor(k)[j].method = "freeSnap"
                   /\ callsFor(k)[j].constraint = <<>>
                   /\ callsFor(k)[j].p = transformedPoint(k)

\* a free scale of a point at the origin, snapped freely, and of a point
\* beside it, snapped along the horizontal through the origin
C25_Witness ==
    /\ last.op = "freeSnapScale"
    /\ Len(last.batch.points) = 2
    /\ last.out.calls # <<>>
    /\ offsetOf(1) = Pt(0, 0)
    /\ callsFor(1)[1].method = "freeSnap"
    /\ alignedOnOneAxis(2)
    /\ callsFor(2)[1].method = "constrainedSnap"
    /\ callsFor(2)[1].constraint.direction = Pt(1, 0)

\* the factors that take point k of the batch from its original offset to
\* where it snapped
factorOf(k) ==
    <<Div(Sub(last.out.snapped[k].point[X], last.batch.origin[X]), offsetOf(k)[X]),
      Div(Sub(last.out.snapped[k].point[Y], last.batch.origin[Y]), offsetOf(k)[Y])>>

\* how far the factor of point k is from the proposed one on an axis
metricOf(k, index) ==
    Fabs(Sub(factorOf(k)[index], last.batch.transformation[index]))

\* the factor returned on an axis is the factor of a point that qualifies and
\* is nearest to the proposed factor among the points that qualify, or the
\* proposed factor when no point qualifies
chosenAmong(qualifying, index) ==
    IF qualifying = {}
    THEN last.out.ret.transformation[index] = last.batch.transformation[index]
    ELSE \E k \in qualifying :
            /\ last.out.ret.transformation[index] = factorOf(k)[index]
            /\ \A j \in qualifying : Le(metricOf(k, index), metricOf(j, index))

\* C26 (as stated): a point qualifies on an axis when it snapped, its offset
\* on the axis exceeds 1e-6 and its factor differs from the proposed one
C26_AsStated ==
    (last.op = "freeSnapScale" /\ someSnapperMightSnap) =>
        \A index \in {X, Y} :
            chosenAmong({k \in 1..Len(last.batch.points) :
                            /\ getSnapped(last.out.snapped[k])
                            /\ Noticeable(offsetOf(k)[index])
                            /\ factorOf(k)[index] # last.batch.transformation[index]},
                        index)

\* C26: in a free scale each axis is decided on its own. A point qualifies on
\* an axis when it snapped, its offset on the axis exceeds 1e-6 and the
\* magnitude of its factor differs from the magnitude of the proposed one; the
\* factor returned is that of a qualifying point nearest to the proposed
\* factor, or the proposed factor when no point qualifies
C26_PerAxis ==
    (last.op = "freeSnapScale" /\ someSnapperMightSnap) =>
        \A index \in {X, Y} :
            chosenAmong({k \in 1..Len(last.batch.points) :
                            /\ getSnapped(last.out.snapped[k])
                            /\ Noticeable(offsetOf(k)[index])
                            /\ Fabs(factorOf(k)[index])
                                  # Fabs(last.batch.transformation[index])},
                        index)

\* a free scale whose factors come from two points: the first gives the
\* factor of one axis and the second that of the other
C26_Witness ==
    /\ last.op = "freeSnapScale"
    /\ Len(last.out.snapped) = 2
    /\ getSnapped(last.out.snapped[1])
    /\ getSnapped(last.out.snapped[2])
    /\ \E index \in {X, Y} :
          /\ last.out.ret.transformation[index] = factorOf(1)[index]
          /\ last.out.ret.transformation[index] # factorOf(2)[index]
          /\ last.out.ret.transformation[Other(index)] = factorOf(2)[Other(index)]
          /\ last.out.ret.transformation[Other(index)] # factorOf(1)[Other(index)]
          /\ last.out.ret.transformation[index] # last.batch.transformation[index]
          /\ last.out.ret.transformation[Other(index)]
                # last.batch.transformation[Other(index)]

\* the places in the list of findBestSnap of the candidates within their
\* tolerance
withinTolerance ==
    {k \in 1..Len(listed) : Le(listed[k].distance, listed[k].tolerance)}

\* C27: whatever candidates findBestSnap is given, it returns the point it was
\* asked about, not snapped, when no candidate of its list is within its
\* tolerance, also when the first of the list is not; otherwise it returns a
\* candidate of the list that is within its tolerance, and no candidate of the
\* list within its tolerance is a better snap than the one returned
C27_NeverDominated ==
    last.op = "findBestSnap" =>
        IF withinTolerance = {}
        THEN /\ ~getSnapped(last.out.ret)
             /\ last.out.ret.point = last.p
             /\ last.out.ret.target = "SNAPTARGET_UNDEFINED"
        ELSE /\ \E k \in withinTolerance : last.out.ret = listed[k]
             /\ \A j \in withinTolerance :
                   ~isOtherSnapBetter(last.out.ret, listed[j], FALSE)

\* a findBestSnap whose list starts with a candidate out of its tolerance and
\* holds two or more within theirs, the first of which is not the best
C27_Witness ==
    /\ last.op = "findBestSnap"
    /\ Len(listed) > 2
    /\ 1 \notin withinTolerance
    /\ Cardinality(withinTolerance) >= 2
    /\ \A k \in withinTolerance :
          (\A j \in withinTolerance : k <= j) => last.out.ret # listed[k]
    /\ getSnapped(last.out.ret)

\* C28: with _snapindicator set, a batch that reaches its loop makes one call
\* on the snap indicator per point, in the order of the points, each the call
\* of the primitive that snapped that point at its transformed position:
\* set_new_snaptarget when the point snapped, remove_snaptarget when it did
\* not. The last call is that of the last point, whatever the batch returns.
\* With _snapindicator clear no call is made.
C28_IndicatorPerPoint ==
    (last.op \in Batches /\ someSnapperMightSnap) =>
        /\ Len(last.out.snapped) = Len(last.batch.points)
        /\ \A k \in 1..Len(last.batch.points) :
              ~getSnapped(last.out.snapped[k]) =>
                  last.out.snapped[k].point = transformedPoint(k)
        /\ last.out.indicator =
              IF _snapindicator
              THEN [k \in 1..Len(last.batch.points) |->
                        IF getSnapped(last.out.snapped[k])
                        THEN "set_new_snaptarget" ELSE "remove_snaptarget"]
              ELSE <<>>

\* a batch of two points returns the snap of its first point after its second
\* point, which did not snap, has cleared the indicator
C28_Witness ==
    /\ last.op \in Batches
    /\ _snapindicator
    /\ Len(last.batch.points) = 2
    /\ getSnapped(last.out.ret)
    /\ last.out.ret.point = last.out.snapped[1].point
    /\ last.out.indicator = <<"set_new_snaptarget", "remove_snaptarget">>

\* the metric point k of a scale brings to an axis: how far its factor is from
\* the proposed one, NR_HUGE when the point did not snap, cannot scale on the
\* axis or kept the magnitude of the proposed factor
pointMetric(k, index) ==
    IF /\ getSnapped(last.out.snapped[k])
       /\ Noticeable(offsetOf(k)[index])
       /\ Fabs(factorOf(k)[index]) # Fabs(last.batch.transformation[index])
    THEN metricOf(k, index)
    ELSE NR_HUGE

\* the best metric of each axis once the first k points are done; a uniform
\* scale gives both axes the smaller of the two after every point
RECURSIVE bestMetricsAfter(_)
bestMetricsAfter(k) ==
    IF k = 0 THEN <<NR_HUGE, NR_HUGE>>
    ELSE LET x == Min(bestMetricsAfter(k - 1)[X], pointMetric(k, X))
             y == Min(bestMetricsAfter(k - 1)[Y], pointMetric(k, Y))
         IN  IF last.batch.uniform THEN <<Min(x, y), Min(x, y)>> ELSE <<x, y>>

\* the points that improved the metric of an axis when their turn came
improvers ==
    {k \in 1..Len(last.batch.points) :
        \E index \in {X, Y} :
            Lt(pointMetric(k, index), bestMetricsAfter(k - 1)[index])}

\* the smaller of the two best metrics when the batch is over
leastMetric ==
    Min(bestMetricsAfter(Len(last.batch.points))[X],
        bestMetricsAfter(Len(last.batch.points))[Y])

\* C29: a scale returns the result of the last of its points that improved
\* the metric of an axis (nothing snapped when no point did), and as distance
\* the smaller of the two best metrics, NR_HUGE when that is not below 1e6;
\* the distance is kept as its square
C29_PointAndDistance ==
    (last.op \in {"freeSnapScale", "constrainedSnapScale"} /\ someSnapperMightSnap) =>
        /\ IF improvers = {}
           THEN last.out.ret.target = "SNAPTARGET_UNDEFINED"
           ELSE \E k \in improvers :
                   /\ \A j \in improvers : j <= k
                   /\ last.out.ret.point = last.out.snapped[k].point
                   /\ last.out.ret.target = last.out.snapped[k].target
                   /\ last.out.ret.source = last.out.snapped[k].source
        /\ last.out.ret.distance =
              IF Below1e6(leastMetric) THEN Sq(leastMetric) ELSE NR_HUGE

\* a scale returns the result of its second point with, as distance, a metric
\* that only its first point reached
C29_Witness ==
    /\ last.op \in {"freeSnapScale", "constrainedSnapScale"}
    /\ Len(last.out.snapped) = 2
    /\ improvers = {1, 2}
    /\ last.out.ret.point = last.out.snapped[2].point
    /\ last.out.ret.point # last.out.snapped[1].point
    /\ \E index \in {X, Y} : pointMetric(1, index) = leastMetric
    /\ \A index \in {X, Y} : Lt(leastMetric, pointMetric(2, index))
    /\ last.out.ret.distance = Sq(leastMetric)

\* the calls multipleOfGridPitch makes whatever the postponed flag says: one
\* freeSnap on each grid snapper that might snap, with the offset moved by the
\* origin of its grid
RECURSIVE gridCallsFrom(_, _)
gridCallsFrom(k, t) ==
    IF k > Len(Grids) THEN <<>>
    ELSE (IF snapprefs.snap_to_grids
          THEN << [snapper |-> [kind |-> "grid", grid |-> k], method |-> "freeSnap",
                   p |-> PAdd(t, Grids[k].origin), items_to_ignore |-> NULL,
                   unselected_nodes |-> NULL] >>
          ELSE <<>>) \o gridCallsFrom(k + 1, t)

\* C30: with snapping enabled globally and the grids of the desktop enabled,
\* multipleOfGridPitch(t) looks at neither the postponed flag nor
\* someSnapperMightSnap(): while snapping is postponed it still calls freeSnap
\* on every grid snapper that might snap and succeeds when one of them finds a
\* grid line, whereas freeSnap of the same offset in the same state returns
\* the offset not snapped and calls no snapper
C30_PitchWhilePostponed ==
    (/\ last.op = "multipleOfGridPitch"
     /\ snapprefs.snap_enabled_globally
     /\ _desktop[1].gridsEnabled
     /\ snapprefs.snap_postponed_globally) =>
        /\ last.out.calls = gridCallsFrom(1, last.t)
        /\ last.out.success <=>
              \E k \in 1..Len(Grids) : gridLinesFound(k, last.t) # <<>>
        /\ ~someSnapperMightSnap
        /\ freeSnap(last.t, "SNAPSOURCE_UNDEFINED").calls = <<>>
        /\ ~getSnapped(freeSnap(last.t, "SNAPSOURCE_UNDEFINED").ret)
        /\ freeSnap(last.t, "SNAPSOURCE_UNDEFINED").ret.point = last.t

\* while snapping is postponed the offset of a copy is moved to a multiple of
\* the pitch of a grid
C30_Witness ==
    /\ last.op = "multipleOfGridPitch"
    /\ snapprefs.snap_enabled_globally
    /\ _desktop[1].gridsEnabled
    /\ snapprefs.snap_postponed_globally
    /\ last.out.calls # <<>>
    /\ last.out.success
    /\ last.out.offset # last.t

====
